---------------------------- MODULE Spec2Model ----------------------------
(***************************************************************************)
(* Model of the dsp_ts_redis native core: the circular buffer, the         *)
(* policy-based sliding-window engine, the per-channel stage adapters and  *)
(* the asynchronous pipeline.                                              *)
(*                                                                         *)
(* Numbers are integers.  The sample domains below are chosen so that      *)
(* every sum the model forms is an integer below 2^24, on which the        *)
(* float arithmetic of the source is exact.                                *)
(***************************************************************************)
EXTENDS Integers, Sequences, FiniteSets, TLC

VARIABLES
    ring,       \* SpecRing: one CircularBufferArray
    ringHist,   \* SpecRing: values given to pushOverwrite since construction/clear (emptied once push or pop is used)
    ringOnlyOw, \* SpecRing: TRUE while only pushOverwrite (or fromVector) filled the window since then
    ringOps,    \* SpecRing: number of operations performed
    ringLast,   \* SpecRing: the last call: its name, whether it succeeded, the window before it
    ringMade,   \* SpecRing: the capacity the constructor set
    ringWritten, \* SpecRing: the storage cells written since construction or the last clear
    engKind,    \* SpecEngine: which policy / filter class the engine is built with
    eng,        \* SpecEngine: one windowed engine (ring window + policy state)
    engLast,    \* SpecEngine: what the last operation did ("new", "add", "evict", "clear")
    engCleared, \* SpecEngine: TRUE once clear has been called
    engOps,     \* SpecEngine: number of operations performed
    engCalls,   \* SpecEngine: the engine before the last call and the calls it made on its window and policy
    stage,      \* SpecStage: one stage adapter (type, m_mode, m_window_size, m_filters)
    saved,      \* SpecStage: a state tree produced by serializeState, possibly edited since
    stOut,      \* SpecStage: the buffer as the last process call left it
    stLast,     \* SpecStage: the last call: its name, its outcome, the engines before a deserializeState
    shadow,     \* SpecStage: the engines of a twin stage that never takes the round trip
    shadowOut,  \* SpecStage: the twin's last processed buffer
    hist,       \* SpecStage: per channel, the last min(k, W) inputs since construction or reset
    stExpect,   \* SpecStage: the means of hist after each sample of the last process call
    pure,       \* SpecStage: TRUE while only process, reset and the round trip were called
    stOps,      \* SpecStage: budget used (samples processed plus other calls)
    m_stages,   \* SpecPipe: the pipeline's stage list, one behaviour per stage
    calls,      \* SpecPipe: every process call: its worker's position and its promise
    alive,      \* SpecPipe: FALSE once the host process has crashed
    pipeline,   \* SpecState: the stage list of a pipeline, every stage with its engines
    snapshot,   \* SpecState: what the last saveState returned
    plLast,     \* SpecState: the last call: its name, its argument, its outcome, the stage list before it
    plOps,      \* SpecState: number of calls made
    flt,        \* SpecDerived: one derived filter (WAMP, SSC or waveform length)
    fltRt,      \* SpecDerived: a filter given the same calls, and setState(getState()) now and then
    fltHist,    \* SpecDerived: the samples given to flt since construction or clear
    fltOut,     \* SpecDerived: what the last addSample of flt returned
    fltRtOut,   \* SpecDerived: what the last addSample of fltRt returned
    fltLast,    \* SpecDerived: the last call: its name and the value it fed into the window
    fltOps,     \* SpecDerived: number of calls made
    fft,        \* SpecFft: one MovingFftFilter
    fftHist,    \* SpecFft: the samples given to addSample since construction or reset
    fftLast,    \* SpecFft: the last call: its name, what it returned, the samples the spectrum was computed over
    fftOps,     \* SpecFft: number of calls made
    tsb,        \* SpecTimeSeries: one TimeSeriesBuffer
    tsbHist,    \* SpecTimeSeries: the samples pushed since construction or clear
    tsbLast,    \* SpecTimeSeries: the last call: its name and its arguments
    tsbOps      \* SpecTimeSeries: number of calls made

ringVars == <<ring, ringHist, ringOnlyOw, ringOps, ringLast, ringMade, ringWritten>>

engVars == <<engKind, eng, engLast, engCleared, engOps, engCalls>>

stageVars == <<stage, saved, stOut, stLast, shadow, shadowOut, hist, stExpect, pure, stOps>>

pipeVars == <<m_stages, calls, alive>>

stateVars == <<pipeline, snapshot, plLast, plOps>>

derivedVars == <<flt, fltRt, fltHist, fltOut, fltRtOut, fltLast, fltOps>>

fftVars == <<fft, fftHist, fftLast, fftOps>>

tsbVars == <<tsb, tsbHist, tsbLast, tsbOps>>

vars == <<ringVars, engVars, stageVars, pipeVars, stateVars, derivedVars, fftVars, tsbVars>>

\* what an action of one component leaves alone
RingFrame == UNCHANGED <<engVars, stageVars, pipeVars, stateVars, derivedVars, fftVars, tsbVars>>

EngFrame == UNCHANGED <<ringVars, stageVars, pipeVars, stateVars, derivedVars, fftVars, tsbVars>>

StageFrame == UNCHANGED <<ringVars, engVars, pipeVars, stateVars, derivedVars, fftVars, tsbVars>>

PipeFrame == UNCHANGED <<ringVars, engVars, stageVars, stateVars, derivedVars, fftVars, tsbVars>>

StateFrame == UNCHANGED <<ringVars, engVars, stageVars, pipeVars, derivedVars, fftVars, tsbVars>>

DerivedFrame == UNCHANGED <<ringVars, engVars, stageVars, pipeVars, stateVars, fftVars, tsbVars>>

FftFrame == UNCHANGED <<ringVars, engVars, stageVars, pipeVars, stateVars, derivedVars, tsbVars>>

TsbFrame == UNCHANGED <<ringVars, engVars, stageVars, pipeVars, stateVars, derivedVars, fftVars>>

-----------------------------------------------------------------------------
(* Bounds *)

MaxCap == 3
MaxRingOps == 5
MaxWin == 2
MaxEngOps == 5
MaxCh == 2
MaxBuf == 2
MaxStOps == 5
MaxCalls == 2
MaxStages == 2
MaxPlOps == 4
MaxPrBuf == 3
MaxPrCh == 3
MaxPrOps == 4
MaxCfOps == 3
MaxFltWin == 4
MaxFltOps == 5
MaxLater == 2
MaxFft == 2
MaxFftOps == 5
MaxTs == 3
MaxTsOps == 4

RingVals == {1, 2}

-----------------------------------------------------------------------------
(* Generic helpers *)

Abs(x) == IF x < 0 THEN -x ELSE x

Max(a, b) == IF a >= b THEN a ELSE b

Min(a, b) == IF a <= b THEN a ELSE b

RECURSIVE SeqSum(_)
SeqSum(s) == IF s = <<>> THEN 0 ELSE s[1] + SeqSum(Tail(s))

RECURSIVE SeqSumSq(_)
SeqSumSq(s) == IF s = <<>> THEN 0 ELSE s[1] * s[1] + SeqSumSq(Tail(s))

RECURSIVE SeqSumAbs(_)
SeqSumAbs(s) == IF s = <<>> THEN 0 ELSE Abs(s[1]) + SeqSumAbs(Tail(s))

LastN(s, n) == SubSeq(s, Len(s) - n + 1, Len(s))

SeqsUpTo(S, n) == UNION {[1..k -> S] : k \in 0..n}

-----------------------------------------------------------------------------
(* CircularBufferArray<T>: storage is a function on 0..capacity-1 *)

\* constructor: capacity = max(size, 1), storage value-initialised to zero
RingNew(size, zero) ==
    LET cap == Max(size, 1) IN
    [buffer |-> [i \in 0..(cap - 1) |-> zero],
     head |-> 0, tail |-> 0, capacity |-> cap, count |-> 0]

isEmpty(r) == r.count = 0

isFull(r) == r.count = r.capacity

\* mutant of push: the full check is dropped
pushUnchecked(r, item) ==
    [r EXCEPT !.buffer[r.head] = item,
              !.head = (r.head + 1) % r.capacity,
              !.count = r.count + 1]

\* push: refused (no mutation) when full
push(r, item) ==
    IF isFull(r) THEN r
    ELSE [r EXCEPT !.buffer[r.head] = item,
                   !.head = (r.head + 1) % r.capacity,
                   !.count = r.count + 1]

pushOk(r) == ~isFull(r)

\* mutant of pop: the count is not decremented
popKeepsCount(r) ==
    IF isEmpty(r) THEN r
    ELSE [r EXCEPT !.tail = (r.tail + 1) % r.capacity]

\* pop: refused (no mutation) when empty
pop(r) ==
    IF isEmpty(r) THEN r
    ELSE [r EXCEPT !.tail = (r.tail + 1) % r.capacity,
                   !.count = r.count - 1]

\* pop returns false on an empty window
popOk(r) == ~isEmpty(r)

\* mutant of clear: the count is left as it was
clearKeepsCount(r) == [r EXCEPT !.head = 0, !.tail = 0]

clear(r) == [r EXCEPT !.head = 0, !.tail = 0, !.count = 0]

\* mutant of pushOverwrite: the tail is not advanced when the window is full
pushOverwriteNoEvict(r, item) ==
    [r EXCEPT !.buffer[r.head] = item,
              !.head = (r.head + 1) % r.capacity,
              !.count = IF r.count < r.capacity THEN r.count + 1 ELSE r.count]

pushOverwrite(r, item) ==
    LET t == IF isFull(r) THEN (r.tail + 1) % r.capacity ELSE r.tail IN
    [r EXCEPT !.tail = t,
              !.buffer[r.head] = item,
              !.head = (r.head + 1) % r.capacity,
              !.count = IF r.count < r.capacity THEN r.count + 1 ELSE r.count]

\* peek: the caller checks isEmpty first (the source throws on an empty buffer)
peek(r) == r.buffer[r.tail]

\* peek throws on an empty window
peekOk(r) == ~isEmpty(r)

toVector(r) == [i \in 1..r.count |-> r.buffer[(r.tail + (i - 1)) % r.capacity]]

RECURSIVE pushAll(_, _)
pushAll(r, data) ==
    IF data = <<>> THEN r ELSE pushAll(pushOverwrite(r, data[1]), Tail(data))

\* the storage cells the pushOverwrite calls of fromVector write
RECURSIVE writtenBy(_, _)
writtenBy(r, data) ==
    IF data = <<>> THEN {}
    ELSE {r.head} \cup writtenBy(pushOverwrite(r, data[1]), Tail(data))

\* mutant of fromVector: the window is not cleared first
fromVectorNoClear(r, data) == pushAll(r, data)

fromVector(r, data) == pushAll(clear(r), data)

-----------------------------------------------------------------------------
(* Results.  A result is the exact value the source computes, kept as a    *)
(* record: "lin" is the rational n/d, "sqrt" is sqrt(n/d), "z" is          *)
(* sign(n) * sqrt(|n|/d).  Fractions are reduced, so equal values are      *)
(* equal records.                                                          *)

RECURSIVE GCD(_, _)
GCD(a, b) == IF b = 0 THEN a ELSE GCD(b, a % b)

Reduced(kind, n, d) ==
    LET g == GCD(Abs(n), d) IN [kind |-> kind, n |-> n \div g, d |-> d \div g]

Lin(n, d) == Reduced("lin", n, d)

Zero == Lin(0, 1)

-----------------------------------------------------------------------------
(* Policies (Policies.h).  The policy state is one record; a policy only   *)
(* touches its own fields.                                                 *)

PolicyKinds == {"Mean", "Rms", "Sum", "Counter", "MeanAbsoluteValue", "Variance"}

EngineKinds == PolicyKinds \cup {"ZScore"}

PolicyNew == [m_sum |-> 0, m_sum_sq |-> 0, m_count |-> 0]

onAdd(kind, p, val) ==
    CASE kind \in {"Mean", "Sum"} -> [p EXCEPT !.m_sum = p.m_sum + val]
      [] kind = "Rms" -> [p EXCEPT !.m_sum_sq = p.m_sum_sq + val * val]
      [] kind = "Counter" -> IF val THEN [p EXCEPT !.m_count = p.m_count + 1] ELSE p
      [] kind = "MeanAbsoluteValue" -> [p EXCEPT !.m_sum = p.m_sum + Abs(val)]
      [] kind = "Variance" -> [p EXCEPT !.m_sum = p.m_sum + val,
                                        !.m_sum_sq = p.m_sum_sq + val * val]

onRemove(kind, p, val) ==
    CASE kind \in {"Mean", "Sum"} -> [p EXCEPT !.m_sum = p.m_sum - val]
      [] kind = "Rms" -> [p EXCEPT !.m_sum_sq = p.m_sum_sq - val * val]
      [] kind = "Counter" -> IF val THEN [p EXCEPT !.m_count = p.m_count - 1] ELSE p
      [] kind = "MeanAbsoluteValue" -> [p EXCEPT !.m_sum = p.m_sum - Abs(val)]
      [] kind = "Variance" -> [p EXCEPT !.m_sum = p.m_sum - val,
                                        !.m_sum_sq = p.m_sum_sq - val * val]

policyClear(p) == PolicyNew

\* getResult(count): 0 for an empty window
getResult(kind, p, count) ==
    CASE kind = "Sum" -> Lin(p.m_sum, 1)
      [] kind = "Counter" -> Lin(p.m_count, 1)
      [] count = 0 -> Zero
      [] kind \in {"Mean", "MeanAbsoluteValue"} -> Lin(p.m_sum, count)
      [] kind = "Rms" -> Reduced("sqrt", Max(0, p.m_sum_sq), count)
      [] kind = "Variance" ->
            Lin(Max(0, count * p.m_sum_sq - p.m_sum * p.m_sum), count * count)

-----------------------------------------------------------------------------
(* SlidingWindowFilter<T, Policy> and MovingZScoreFilter<T>                *)

EngineNew(kind, window_size) ==
    [m_buffer |-> RingNew(window_size, IF kind = "Counter" THEN FALSE ELSE 0),
     m_policy |-> PolicyNew]

\* mutant of SlidingAddSample: the evicted value is never reported to the policy
SlidingAddSampleNoRemove(kind, e, newValue) ==
    [e EXCEPT !.m_buffer = pushOverwrite(e.m_buffer, newValue),
              !.m_policy = onAdd(kind, e.m_policy, newValue)]

\* SlidingWindowFilter::addSample: the engine after the call
SlidingAddSample(kind, e, newValue) ==
    LET p1 == IF isFull(e.m_buffer)
              THEN onRemove(kind, e.m_policy, peek(e.m_buffer))
              ELSE e.m_policy
    IN [e EXCEPT !.m_buffer = pushOverwrite(e.m_buffer, newValue),
                 !.m_policy = onAdd(kind, p1, newValue)]

\* MovingZScoreFilter::addSample: the engine after the call
ZScoreAddSample(e, newValue) ==
    LET oldestValue == IF isFull(e.m_buffer) THEN peek(e.m_buffer) ELSE 0
        p == e.m_policy
    IN [e EXCEPT !.m_buffer = pushOverwrite(e.m_buffer, newValue),
                 !.m_policy = [p EXCEPT
                     !.m_sum = p.m_sum - oldestValue + newValue,
                     !.m_sum_sq = p.m_sum_sq - oldestValue * oldestValue
                                             + newValue * newValue]]

\* epsilon is counted in units of 1e-6, the default of the filter
EpsilonPerUnit == 1000000

\* what a division by a zero standard deviation yields
DivByZero == [kind |-> "nan", n |-> 0, d |-> 0]

\* stddev < epsilon, with stddev = sqrt(varNum) / count; varNum is an
\* integer, so a nonzero deviation is at least 1 / count
BelowEpsilon(varNum, count, epsilon) ==
    /\ epsilon > 0
    /\ \/ varNum = 0
       \/ /\ epsilon * count > EpsilonPerUnit
          /\ varNum * EpsilonPerUnit * EpsilonPerUnit < epsilon * epsilon * count * count

\* mutant of ZScoreOutcome: the epsilon guard is dropped
ZScoreOutcomeNoGuard(e, newValue, epsilon) ==
    LET count == e.m_buffer.count
        varNum == Max(0, count * e.m_policy.m_sum_sq - e.m_policy.m_sum * e.m_policy.m_sum)
        num == newValue * count - e.m_policy.m_sum
    IN IF varNum = 0 THEN DivByZero
       ELSE Reduced("z", (IF num < 0 THEN -1 ELSE 1) * num * num, varNum)

\* the z-score of newValue against the window of a filter built with
\* epsilon: 0 when the deviation is below epsilon, else the quotient
ZScoreOutcome(e, newValue, epsilon) ==
    LET count == e.m_buffer.count
        varNum == Max(0, count * e.m_policy.m_sum_sq - e.m_policy.m_sum * e.m_policy.m_sum)
        num == newValue * count - e.m_policy.m_sum
    IN IF BelowEpsilon(varNum, count, epsilon) THEN Zero
       ELSE IF varNum = 0 THEN DivByZero
       ELSE Reduced("z", (IF num < 0 THEN -1 ELSE 1) * num * num, varNum)

\* the z-score under the default epsilon
ZScoreResult(e, newValue) == ZScoreOutcome(e, newValue, 1)

addSample(kind, e, newValue) ==
    IF kind = "ZScore" THEN ZScoreAddSample(e, newValue)
    ELSE SlidingAddSample(kind, e, newValue)

\* the value addSample returns, computed from the engine after the call
addSampleResult(kind, e, newValue) ==
    LET e2 == addSample(kind, e, newValue) IN
    IF kind = "ZScore" THEN ZScoreResult(e2, newValue)
    ELSE getResult(kind, e2.m_policy, e2.m_buffer.count)

\* mutant of SlidingCalls: the policy hears of the eviction after the overwrite
SlidingCallsRemoveLate(e, newValue) ==
    <<[fn |-> "pushOverwrite", arg |-> newValue]>>
        \o (IF isFull(e.m_buffer)
            THEN <<[fn |-> "onRemove", arg |-> peek(pushOverwrite(e.m_buffer, newValue))]>>
            ELSE <<>>)
        \o <<[fn |-> "onAdd", arg |-> newValue],
             [fn |-> "getResult", arg |-> pushOverwrite(e.m_buffer, newValue).count]>>

\* SlidingWindowFilter::addSample: its calls on the policy and its writing
\* call on the window, in order, each with its argument (peek gives onRemove
\* its argument)
SlidingCalls(e, newValue) ==
    (IF isFull(e.m_buffer)
     THEN <<[fn |-> "onRemove", arg |-> peek(e.m_buffer)]>>
     ELSE <<>>)
        \o <<[fn |-> "pushOverwrite", arg |-> newValue],
             [fn |-> "onAdd", arg |-> newValue],
             [fn |-> "getResult", arg |-> pushOverwrite(e.m_buffer, newValue).count]>>

\* MovingZScoreFilter::addSample keeps its sums itself and calls no policy
addSampleCalls(kind, e, newValue) ==
    IF kind = "ZScore" THEN <<[fn |-> "pushOverwrite", arg |-> newValue]>>
    ELSE SlidingCalls(e, newValue)

engineClear(e) ==
    [e EXCEPT !.m_buffer = clear(e.m_buffer), !.m_policy = policyClear(e.m_policy)]

-----------------------------------------------------------------------------
(* Derived filters: WampFilter, SscFilter, WaveformLengthFilter.  A        *)
(* derived filter is [kind, m_filter, m_threshold, m_previous_sample,      *)
(* m_is_initialized, m_sample_minus_1, m_sample_minus_2, m_init_count];    *)
(* m_filter is a SlidingWindowFilter of booleans with the Counter policy   *)
(* (WAMP, SSC) or of differences with the Sum policy (waveform length).    *)
(* A class carries the fields of the other classes at their initial value. *)

DerivedKinds == {"Wamp", "Ssc", "WaveformLength"}

InnerKind(kind) == IF kind = "WaveformLength" THEN "Sum" ELSE "Counter"

DerivedNew(kind, window_size, threshold) ==
    [kind |-> kind, m_filter |-> EngineNew(InnerKind(kind), window_size),
     m_threshold |-> threshold, m_previous_sample |-> 0, m_is_initialized |-> FALSE,
     m_sample_minus_1 |-> 0, m_sample_minus_2 |-> 0, m_init_count |-> 0]

\* the filter after an addSample that feeds fed into the window, what was
\* fed, and the value returned
Fed(f, fed) ==
    [flt |-> [f EXCEPT !.m_filter = addSample(InnerKind(f.kind), f.m_filter, fed)],
     fed |-> fed,
     out |-> addSampleResult(InnerKind(f.kind), f.m_filter, fed)]

\* mutant of WampAddSample: the first sample is compared with the initial lag
WampAddSampleNoFlag(f, newValue) ==
    Fed([f EXCEPT !.m_previous_sample = newValue, !.m_is_initialized = TRUE],
        Abs(newValue - f.m_previous_sample) > f.m_threshold)

\* WampFilter::addSample
WampAddSample(f, newValue) ==
    LET did_exceed == /\ f.m_is_initialized
                      /\ Abs(newValue - f.m_previous_sample) > f.m_threshold
    IN Fed([f EXCEPT !.m_previous_sample = newValue, !.m_is_initialized = TRUE], did_exceed)

\* SscFilter::addSample.  While m_init_count < 2 the branch that seeds the
\* lags assigns the sample to m_sample_minus_2 (count 0) or to
\* m_sample_minus_1 (count 1); the shift that follows on every call then
\* copies m_sample_minus_1 over m_sample_minus_2
SscAddSample(f, sample_n) ==
    LET seeding == f.m_init_count < 2
        did_change == /\ ~seeding
                      /\ (f.m_sample_minus_1 - f.m_sample_minus_2)
                            * (f.m_sample_minus_1 - sample_n) > f.m_threshold
        seeded_1 == IF seeding /\ f.m_init_count = 1 THEN sample_n ELSE f.m_sample_minus_1
    IN Fed([f EXCEPT !.m_sample_minus_2 = seeded_1,
                     !.m_sample_minus_1 = sample_n,
                     !.m_init_count = IF seeding THEN @ + 1 ELSE @],
           did_change)

\* mutant of WaveformLengthAddSample: the difference keeps its sign
WaveformLengthAddSampleSigned(f, newValue) ==
    Fed([f EXCEPT !.m_previous_sample = newValue, !.m_is_initialized = TRUE],
        IF f.m_is_initialized THEN newValue - f.m_previous_sample ELSE 0)

\* WaveformLengthFilter::addSample
WaveformLengthAddSample(f, newValue) ==
    LET diff == IF f.m_is_initialized THEN Abs(newValue - f.m_previous_sample) ELSE 0
    IN Fed([f EXCEPT !.m_previous_sample = newValue, !.m_is_initialized = TRUE], diff)

derivedAddSample(f, x) ==
    CASE f.kind = "Wamp" -> WampAddSample(f, x)
      [] f.kind = "Ssc" -> SscAddSample(f, x)
      [] f.kind = "WaveformLength" -> WaveformLengthAddSample(f, x)

\* clear of the three classes: the window, the lags and the flags
derivedClear(f) ==
    [f EXCEPT !.m_filter = engineClear(f.m_filter),
              !.m_previous_sample = 0, !.m_is_initialized = FALSE,
              !.m_sample_minus_1 = 0, !.m_sample_minus_2 = 0, !.m_init_count = 0]

\* SlidingWindowFilter::getState and setState: the window through toVector
\* and fromVector, the policy's count or sum
slidingGetState(kind, e) ==
    [buffer |-> toVector(e.m_buffer),
     state |-> IF kind = "Counter" THEN e.m_policy.m_count ELSE e.m_policy.m_sum]

slidingSetState(kind, e, bufferData, policyState) ==
    [e EXCEPT !.m_buffer = fromVector(e.m_buffer, bufferData),
              !.m_policy = IF kind = "Counter" THEN [@ EXCEPT !.m_count = policyState]
                           ELSE [@ EXCEPT !.m_sum = policyState]]

\* getState: WampFilter and WaveformLengthFilter export the inner state and
\* the previous sample; SscFilter exports the inner state, both lags and
\* the init count
derivedGetState(f) ==
    IF f.kind = "Ssc"
    THEN [inner |-> slidingGetState(InnerKind(f.kind), f.m_filter),
          lags |-> [sample_minus_1 |-> f.m_sample_minus_1,
                    sample_minus_2 |-> f.m_sample_minus_2,
                    init_count |-> f.m_init_count]]
    ELSE [inner |-> slidingGetState(InnerKind(f.kind), f.m_filter),
          lags |-> [prevSample |-> f.m_previous_sample]]

\* setState: WampFilter and WaveformLengthFilter set m_is_initialized
derivedSetState(f, s) ==
    LET inner == slidingSetState(InnerKind(f.kind), f.m_filter, s.inner.buffer, s.inner.state)
    IN IF f.kind = "Ssc"
       THEN [f EXCEPT !.m_filter = inner,
                      !.m_sample_minus_1 = s.lags.sample_minus_1,
                      !.m_sample_minus_2 = s.lags.sample_minus_2,
                      !.m_init_count = s.lags.init_count]
       ELSE [f EXCEPT !.m_filter = inner,
                      !.m_previous_sample = s.lags.prevSample,
                      !.m_is_initialized = TRUE]

-----------------------------------------------------------------------------
(* MovingFftFilter.  A filter is [m_fftSize, m_hopSize, m_mode, m_buffer,   *)
(* m_sampleCounter]; m_buffer is a ring window of 2 * fftSize samples.  The *)
(* spectrum is a function of the samples computeSpectrum extracts, so the   *)
(* model keeps those samples in its place.                                  *)

FftModes == {"Moving", "Batched"}

\* constructor; fftSize = 0 and hopSize > fftSize are refused
FftNew(fftSize, hopSize, mode) ==
    [m_fftSize |-> fftSize,
     m_hopSize |-> IF hopSize = 0 THEN fftSize ELSE hopSize,
     m_mode |-> mode,
     m_buffer |-> RingNew(fftSize * 2, 0),
     m_sampleCounter |-> 0]

\* computeSpectrum: the last fftSize samples of the buffer's toVector
computeSpectrum(f) == LastN(toVector(f.m_buffer), f.m_fftSize)

\* addSample: m_buffer.push(sample), its return value dropped; Moving mode
\* computes whenever the buffer holds fftSize samples, Batched mode every
\* hopSize samples.  Gives the filter, the return value and the samples of
\* the spectrum.
fftAddSample(f, sample) ==
    LET pushed == [f EXCEPT !.m_buffer = push(f.m_buffer, sample)]
        ready == pushed.m_buffer.count >= f.m_fftSize
        counter == f.m_sampleCounter + 1
        computed == IF f.m_mode = "Moving" THEN ready
                    ELSE ready /\ counter >= f.m_hopSize
        after == IF f.m_mode = "Moving" THEN pushed
                 ELSE [pushed EXCEPT !.m_sampleCounter = IF computed THEN 0 ELSE counter]
    IN [fft |-> after, computed |-> computed,
        frame |-> IF computed THEN computeSpectrum(pushed) ELSE <<>>]

fftReset(f) == [f EXCEPT !.m_buffer = clear(f.m_buffer), !.m_sampleCounter = 0]

-----------------------------------------------------------------------------
(* TimeSeriesBuffer.  A buffer is [m_max_samples, m_window_duration_ms,    *)
(* m_samples]; a sample is <<timestamp, value>>.  Timestamps are unsigned  *)
(* and wrap at TimestampModulus, which stands for 2^64.                    *)

TimestampModulus == 16

TimeSeriesBufferNew(max_samples, window_duration_ms) ==
    [m_max_samples |-> max_samples,
     m_window_duration_ms |-> window_duration_ms,
     m_samples |-> <<>>]

\* removeOlderThan: samples are dropped from the front while older than the cutoff
RECURSIVE removeOlderThan(_, _)
removeOlderThan(samples, cutoff_timestamp) ==
    IF samples # <<>> /\ samples[1][1] < cutoff_timestamp
    THEN removeOlderThan(Tail(samples), cutoff_timestamp)
    ELSE samples

\* enforceWindowConstraints: the time window first, cutoff = newest - duration
\* in unsigned arithmetic, then the sample count
enforceWindowConstraints(b) ==
    LET n == Len(b.m_samples)
        timed == IF b.m_window_duration_ms > 0 /\ n > 1
                 THEN removeOlderThan(b.m_samples,
                          (b.m_samples[n][1] - b.m_window_duration_ms) % TimestampModulus)
                 ELSE b.m_samples
        counted == IF b.m_max_samples > 0 /\ Len(timed) > b.m_max_samples
                   THEN LastN(timed, b.m_max_samples)
                   ELSE timed
    IN [b EXCEPT !.m_samples = counted]

\* push(timestamp, value)
timeSeriesPush(b, timestamp, value) ==
    enforceWindowConstraints([b EXCEPT !.m_samples = Append(@, <<timestamp, value>>)])

timeSeriesClear(b) == [b EXCEPT !.m_samples = <<>>]

-----------------------------------------------------------------------------
(* Stage adapters: MovingAverageStage, RmsStage, ZScoreNormalizeStage,      *)
(* MeanAbsoluteValueStage, RectifyStage.                                   *)
(* A stage is [type, m_mode, m_window_size, m_filters, m_epsilon];         *)
(* m_filters is the vector of per-channel engines.  m_epsilon is a field   *)
(* of ZScoreNormalizeStage only, in units of its default 1e-6; the other   *)
(* stages carry the default and never read it.  A RectifyStage has m_mode  *)
(* FullWave or HalfWave, no window and no engines.                         *)

StageTypes == {"movingAverage", "rms", "zScoreNormalize"}

\* the filter class each stage keeps per channel
KindOf(type) ==
    CASE type = "movingAverage" -> "Mean"
      [] type = "rms" -> "Rms"
      [] type = "zScoreNormalize" -> "ZScore"
      [] type = "meanAbsoluteValue" -> "MeanAbsoluteValue"

\* float epsilon = 1e-6f, the unit epsilon is counted in
DefaultEpsilon == 1

\* constructor; a Moving stage with window size 0 is refused, so it is never built
StageNew(type, mode, window_size) ==
    [type |-> type, m_mode |-> mode, m_window_size |-> window_size, m_filters |-> <<>>,
     m_epsilon |-> DefaultEpsilon]

\* ZScoreNormalizeStage(mode, window_size, epsilon)
ZScoreNormalizeStageNew(mode, window_size, epsilon) ==
    [StageNew("zScoreNormalize", mode, window_size) EXCEPT !.m_epsilon = epsilon]

\* RectifyStage(mode)
RectifyStageNew(mode) == StageNew("rectify", mode, 0)

FreshFilters(type, window_size, n) ==
    [i \in 1..n |-> EngineNew(KindOf(type), window_size)]

\* mutant of MovingLoop: every sample goes to the first engine
RECURSIVE MovingLoopOneEngine(_, _, _, _, _, _)
MovingLoopOneEngine(kind, filters, buffer, out, i, numChannels) ==
    IF i > Len(buffer) THEN [filters |-> filters, out |-> out]
    ELSE MovingLoopOneEngine(kind,
                       [filters EXCEPT ![1] = addSample(kind, filters[1], buffer[i])],
                       buffer,
                       Append(out, addSampleResult(kind, filters[1], buffer[i])),
                       i + 1, numChannels)

\* processMoving, the sample loop from buffer index i (1-based) on:
\* channel = i % numChannels, buffer[i] = m_filters[channel].addSample(buffer[i])
RECURSIVE MovingLoop(_, _, _, _, _, _)
MovingLoop(kind, filters, buffer, out, i, numChannels) ==
    IF i > Len(buffer) THEN [filters |-> filters, out |-> out]
    ELSE LET channel == ((i - 1) % numChannels) + 1
             f == filters[channel]
         IN MovingLoop(kind,
                       [filters EXCEPT ![channel] = addSample(kind, f, buffer[i])],
                       buffer,
                       Append(out, addSampleResult(kind, f, buffer[i])),
                       i + 1, numChannels)

\* mutant of processMoving: a differing channel count resizes the vector of
\* engines, keeping the engines it already has
processMovingResizing(st, buffer, numChannels) ==
    LET filters == [i \in 1..numChannels |->
                       IF i <= Len(st.m_filters) THEN st.m_filters[i]
                       ELSE EngineNew(KindOf(st.type), st.m_window_size)]
    IN MovingLoop(KindOf(st.type), filters, buffer, <<>>, 1, numChannels)

\* mutant of processMoving: the engines are rebuilt on every call
processMovingAlwaysFresh(st, buffer, numChannels) ==
    MovingLoop(KindOf(st.type),
               FreshFilters(st.type, st.m_window_size, numChannels),
               buffer, <<>>, 1, numChannels)

\* mutant of processMoving: the engines it keeps are cleared at entry
processMovingClearing(st, buffer, numChannels) ==
    LET filters == IF Len(st.m_filters) # numChannels
                   THEN FreshFilters(st.type, st.m_window_size, numChannels)
                   ELSE [i \in 1..numChannels |-> engineClear(st.m_filters[i])]
    IN MovingLoop(KindOf(st.type), filters, buffer, <<>>, 1, numChannels)

\* processMoving: engines are (re)built when the channel count differs
processMoving(st, buffer, numChannels) ==
    LET filters == IF Len(st.m_filters) # numChannels
                   THEN FreshFilters(st.type, st.m_window_size, numChannels)
                   ELSE st.m_filters
    IN MovingLoop(KindOf(st.type), filters, buffer, <<>>, 1, numChannels)

\* the samples a channel's strided loop visits: i = c, c + numChannels, ...
Strided(buffer, c, numChannels) ==
    LET idx == {i \in 1..Len(buffer) : (i - 1) % numChannels = c}
        n == Cardinality(idx)
    IN [k \in 1..n |-> buffer[c + 1 + (k - 1) * numChannels]]

\* processBatch: one value per channel from numSamples / numChannels and the
\* channel's sums, written over the channel's samples; a channel is skipped
\* when numSamples / numChannels is 0, and with 0 channels no channel is visited
BatchValue(type, buffer, i, numChannels) ==
    LET c == (i - 1) % numChannels
        n == Len(buffer) \div numChannels
        own == Strided(buffer, c, numChannels)
        sum == IF type = "movingAverage" /\ numChannels = 1 THEN SeqSum(buffer) ELSE SeqSum(own)
        sum_sq == SeqSumSq(own)
        sum_abs == SeqSumAbs(own)
        varNum == Max(0, n * sum_sq - sum * sum)
        num == buffer[i] * n - sum
    IN CASE numChannels = 0 -> Lin(buffer[i], 1)
         [] n = 0 -> Lin(buffer[i], 1)
         [] type = "movingAverage" -> Lin(sum, n)
         [] type = "rms" -> Reduced("sqrt", Max(0, sum_sq), n)
         [] type = "meanAbsoluteValue" -> Lin(sum_abs, n)
         [] type = "zScoreNormalize" ->
               IF varNum = 0 THEN Zero
               ELSE Reduced("z", (IF num < 0 THEN -1 ELSE 1) * num * num, varNum)

\* mutant of processBatch: engines are allocated as processMoving does
processBatchAllocating(st, buffer, numChannels) ==
    [filters |-> FreshFilters(st.type, Max(1, st.m_window_size), numChannels),
     out |-> [i \in 1..Len(buffer) |-> BatchValue(st.type, buffer, i, numChannels)]]

processBatch(st, buffer, numChannels) ==
    [filters |-> st.m_filters,
     out |-> [i \in 1..Len(buffer) |-> BatchValue(st.type, buffer, i, numChannels)]]

\* RectifyStage::process: |x| in FullWave, max(0, x) in HalfWave
processRectify(st, buffer) ==
    [filters |-> st.m_filters,
     out |-> [i \in 1..Len(buffer) |->
                 Lin(IF st.m_mode = "FullWave" THEN Abs(buffer[i]) ELSE Max(0, buffer[i]), 1)]]

\* process: [filters, out] after the call
process(st, buffer, numChannels) ==
    IF st.type = "rectify" THEN processRectify(st, buffer)
    ELSE IF st.m_mode = "Batch" THEN processBatch(st, buffer, numChannels)
    ELSE processMoving(st, buffer, numChannels)

\* reset: clear every live engine
\* mutant of reset: the windows are emptied, the aggregates are kept
resetWindowsOnly(st) ==
    [st EXCEPT !.m_filters = [i \in 1..Len(st.m_filters) |->
        [st.m_filters[i] EXCEPT !.m_buffer = clear(st.m_filters[i].m_buffer)]]]

reset(st) ==
    [st EXCEPT !.m_filters = [i \in 1..Len(st.m_filters) |-> engineClear(st.m_filters[i])]]

-----------------------------------------------------------------------------
(* State trees.  A tree is [mode, hasWindow, windowSize, channels]; a      *)
(* channel is [buffer, runningSum, runningSumOfSquares] (a stage writes    *)
(* and reads only the aggregate fields of its type).                       *)

ModeStrings == {"moving", "batch", "other"}

\* the mode a stage reads from a state tree: anything but "moving" is Batch
ParseMode(modeStr) == IF modeStr = "moving" THEN "Moving" ELSE "Batch"

\* mutant of ChannelState: the buffer is written newest first
ChannelStateReversed(type, f) ==
    LET v == toVector(f.m_buffer) IN
    [buffer |-> [i \in 1..Len(v) |-> v[Len(v) + 1 - i]],
     runningSum |-> IF type = "rms" THEN 0 ELSE f.m_policy.m_sum,
     runningSumOfSquares |-> IF type \in {"movingAverage", "meanAbsoluteValue"} THEN 0
                             ELSE f.m_policy.m_sum_sq]

\* getState of one engine as serializeState writes it
ChannelState(type, f) ==
    [buffer |-> toVector(f.m_buffer),
     runningSum |-> IF type = "rms" THEN 0 ELSE f.m_policy.m_sum,
     runningSumOfSquares |-> IF type \in {"movingAverage", "meanAbsoluteValue"} THEN 0
                             ELSE f.m_policy.m_sum_sq]

\* epsilon is the entry ZScoreNormalizeStage writes in both modes
serializeState(st) ==
    IF st.type = "rectify"
    THEN [mode |-> IF st.m_mode = "FullWave" THEN "full" ELSE "half",
          hasWindow |-> FALSE, windowSize |-> 0, channels |-> <<>>, epsilon |-> st.m_epsilon]
    ELSE IF st.m_mode = "Moving"
    THEN [mode |-> "moving", hasWindow |-> TRUE, windowSize |-> st.m_window_size,
          channels |-> [i \in 1..Len(st.m_filters) |-> ChannelState(st.type, st.m_filters[i])],
          epsilon |-> st.m_epsilon]
    ELSE [mode |-> "batch", hasWindow |-> FALSE, windowSize |-> 0, channels |-> <<>>,
          epsilon |-> st.m_epsilon]

\* tolerance = 0.0001 * max(1, |actual|); |stored - actual| > tolerance is a
\* corruption.  Both sides are multiplied by 10000.
ToleranceDen == 10000

Exceeds(stored, actual) == ToleranceDen * Abs(stored - actual) > Max(1, Abs(actual))

\* mutant of ChannelCorrupt: the stored aggregates are never compared
ChannelCorruptUnchecked(type, ch) == FALSE

\* validation of one channel of a tree against its own buffer
ChannelCorrupt(type, ch) ==
    CASE type = "movingAverage" -> Exceeds(ch.runningSum, SeqSum(ch.buffer))
      [] type = "meanAbsoluteValue" -> Exceeds(ch.runningSum, SeqSumAbs(ch.buffer))
      [] type = "rms" -> Exceeds(ch.runningSumOfSquares, SeqSumSq(ch.buffer))
      [] type = "zScoreNormalize" ->
            \/ Exceeds(ch.runningSum, SeqSum(ch.buffer))
            \/ Exceeds(ch.runningSumOfSquares, SeqSumSq(ch.buffer))

\* setState of one engine: the buffer through fromVector, the aggregates as stored
engineSetState(type, f, ch) ==
    [f EXCEPT !.m_buffer = fromVector(f.m_buffer, ch.buffer),
              !.m_policy = [m_sum |-> IF type = "rms" THEN 0 ELSE ch.runningSum,
                            m_sum_sq |-> IF type \in {"movingAverage", "meanAbsoluteValue"}
                                         THEN 0 ELSE ch.runningSumOfSquares,
                            m_count |-> 0]]

\* the restore loop from channel i on: the first corrupt channel throws and
\* leaves the engines as the loop has made them so far
RECURSIVE RestoreLoop(_, _, _, _)
RestoreLoop(type, filters, channels, i) ==
    IF i > Len(channels) THEN [filters |-> filters, err |-> "ok"]
    ELSE IF ChannelCorrupt(type, channels[i])
         THEN [filters |-> filters, err |-> "StateCorruption"]
         ELSE RestoreLoop(type,
                          [filters EXCEPT ![i] = engineSetState(type, filters[i], channels[i])],
                          channels, i + 1)

\* deserializeState of the windowed stages: [filters, err] after the call
deserializeWindowed(st, tree) ==
    IF ParseMode(tree.mode) # st.m_mode
    THEN [filters |-> st.m_filters, err |-> "ModeMismatch"]
    ELSE IF st.m_mode = "Moving"
         THEN IF ~tree.hasWindow
              THEN [filters |-> st.m_filters, err |-> "TypeError"]
              ELSE IF tree.windowSize # st.m_window_size
                   THEN [filters |-> st.m_filters, err |-> "WindowSizeMismatch"]
                   ELSE RestoreLoop(st.type,
                                    FreshFilters(st.type, st.m_window_size, Len(tree.channels)),
                                    tree.channels, 1)
         ELSE [filters |-> st.m_filters, err |-> "ok"]

\* RectifyStage::deserializeState: m_mode is assigned from the tree
deserializeRectify(st, tree) ==
    CASE tree.mode = "full" ->
            [filters |-> st.m_filters, err |-> "ok", mode |-> "FullWave", epsilon |-> st.m_epsilon]
      [] tree.mode = "half" ->
            [filters |-> st.m_filters, err |-> "ok", mode |-> "HalfWave", epsilon |-> st.m_epsilon]
      [] OTHER ->
            [filters |-> st.m_filters, err |-> "InvalidMode", mode |-> st.m_mode,
             epsilon |-> st.m_epsilon]

\* deserializeState: [filters, err, mode, epsilon] after the call.
\* ZScoreNormalizeStage assigns m_epsilon from the tree once the mode has
\* matched, before it looks at the window size and the channels
deserializeState(st, tree) ==
    IF st.type = "rectify" THEN deserializeRectify(st, tree)
    ELSE LET r == deserializeWindowed(st, tree) IN
         [filters |-> r.filters, err |-> r.err, mode |-> st.m_mode,
          epsilon |-> IF st.type = "zScoreNormalize" /\ ParseMode(tree.mode) = st.m_mode
                      THEN tree.epsilon ELSE st.m_epsilon]

\* the stage after deserializeState has returned or thrown r
Deserialized(st, r) ==
    [st EXCEPT !.m_filters = r.filters, !.m_mode = r.mode, !.m_epsilon = r.epsilon]

-----------------------------------------------------------------------------
(* DspPipeline::ProcessAsync and ProcessWorker *)

CallIds == 1..MaxCalls

\* what process of a stage does to the worker: a Moving stage keeps engines
\* in the stage, a Batch stage keeps nothing, and some stages throw
StageBehaviours == {"Moving", "Batch", "Throws"}

PipeChannels == {0, 1}

\* applied: the stages that have mutated the call's buffer, in the order
\* they did
NoCall ==
    [st |-> "idle", channels |-> 0, numSamples |-> 0, pos |-> 0, applied |-> <<>>,
     err |-> FALSE, resolved |-> 0, rejected |-> 0]

\* mutant of StageReturned: the loop steps over the following stage
StageReturnedSkipping(call, n) ==
    [call EXCEPT !.applied = Append(@, call.pos),
                 !.pos = @ + 2,
                 !.st = IF call.pos + 1 >= n THEN "done" ELSE "running"]

\* the loop of Execute after stage->process has returned: the stage has
\* mutated the buffer in place, the next stage is the following one, and
\* Execute returns after the last of the n stages
StageReturned(call, n) ==
    [call EXCEPT !.applied = Append(@, call.pos),
                 !.pos = @ + 1,
                 !.st = IF call.pos = n THEN "done" ELSE "running"]

\* mutant of StageThrew: the error is swallowed and the loop goes on
StageThrewSwallowed(call, n) ==
    [call EXCEPT !.pos = @ + 1,
                 !.st = IF call.pos = n THEN "done" ELSE "running"]

\* the catch of Execute: SetError, and Execute returns
StageThrew(call, n) == [call EXCEPT !.st = "done", !.err = TRUE]

\* another worker is inside Execute on the same m_stages
Racing(c) == \E d \in CallIds \ {c} : calls[d].st = "running"

\* stage->process has no defined behaviour: i % numChannels with
\* numChannels = 0, or two workers in the engines of one stage
Undefined(c) ==
    /\ m_stages[calls[c].pos] = "Moving"
    /\ \/ calls[c].channels = 0 /\ calls[c].numSamples > 0
       \/ Racing(c)

-----------------------------------------------------------------------------
(* DspPipeline::AddStage, SaveState, LoadState, ClearState *)

\* the names InitializeStageFactories registers ("variance" is registered
\* too; its stage class is not part of the sources modelled)
Registry == StageTypes \cup {"meanAbsoluteValue", "rectify"}

\* mutant of stageFactory: the window size is never looked at
stageFactoryAnyWindow(name, params) ==
    LET mode == ParseMode(params.mode) IN
    [err |-> "ok", stage |-> StageNew(name, mode, params.windowSize)]

\* the registered factory of name and the constructor it calls:
\* [err, stage].  params is [mode, hasWindowSize, windowSize, hasEpsilon,
\* epsilon].  A windowed factory reads the mode, in moving mode requires
\* windowSize, and the constructor refuses a moving stage with window size
\* 0; the rectify factory reads "half" or takes FullWave; epsilon is passed
\* on as given
stageFactory(name, params) ==
    LET mode == ParseMode(params.mode)
        window_size == IF mode = "Moving" THEN params.windowSize ELSE 0
        epsilon == IF params.hasEpsilon THEN params.epsilon ELSE DefaultEpsilon
    IN IF name = "rectify"
       THEN [err |-> "ok",
             stage |-> RectifyStageNew(IF params.mode = "half" THEN "HalfWave" ELSE "FullWave")]
       ELSE IF mode = "Moving" /\ (~params.hasWindowSize \/ params.windowSize = 0)
       THEN [err |-> "TypeError", stage |-> StageNew(name, mode, 0)]
       ELSE IF name = "zScoreNormalize"
       THEN [err |-> "ok", stage |-> ZScoreNormalizeStageNew(mode, window_size, epsilon)]
       ELSE [err |-> "ok", stage |-> StageNew(name, mode, window_size)]


\* mutant of addStage: a name that is not registered builds a movingAverage
addStageDefaulting(stages, name, params) ==
    LET mode == ParseMode(params.mode)
        type == IF name \in StageTypes THEN name ELSE "movingAverage" IN
    IF mode = "Moving" /\ (~params.hasWindowSize \/ params.windowSize = 0)
    THEN [stages |-> stages, err |-> "TypeError"]
    ELSE [stages |-> Append(stages, StageNew(type, mode,
                        IF mode = "Moving" THEN params.windowSize ELSE 0)),
          err |-> "ok"]

\* AddStage: [stages, err] after the call.  A stage the factory returns is
\* pushed back; a factory that throws leaves m_stages as it is
addStage(stages, name, params) ==
    IF name \notin Registry
    THEN [stages |-> stages, err |-> "UnknownStageType"]
    ELSE LET r == stageFactory(name, params) IN
         IF r.err # "ok" THEN [stages |-> stages, err |-> r.err]
         ELSE [stages |-> Append(stages, r.stage), err |-> "ok"]

\* mutant of saveState: the entries are numbered from 1
saveStateOneBased(stages) ==
    [hasStages |-> TRUE,
     stageCount |-> Len(stages),
     stages |-> [i \in 1..Len(stages) |->
                    [index |-> i, type |-> stages[i].type, hasState |-> TRUE,
                     state |-> serializeState(stages[i])]]]

\* SaveState: the parsed form of the JSON string it returns (the timestamp
\* left out); the code numbers the entries from 0
saveState(stages) ==
    [hasStages |-> TRUE,
     stageCount |-> Len(stages),
     stages |-> [i \in 1..Len(stages) |->
                    [index |-> i - 1, type |-> stages[i].type, hasState |-> TRUE,
                     state |-> serializeState(stages[i])]]]

\* ListState: the summary object (the timestamp left out): per stage its
\* index and type, the fields of its serialized state, the number of
\* channels and the occupancy of the first channel's buffer
listState(stages) ==
    [stageCount |-> Len(stages),
     stages |-> [i \in 1..Len(stages) |->
                    LET fullState == serializeState(stages[i]) IN
                    [index |-> i - 1, type |-> stages[i].type,
                     mode |-> fullState.mode,
                     hasWindow |-> fullState.hasWindow,
                     windowSize |-> fullState.windowSize,
                     channelCount |-> Len(fullState.channels),
                     bufferSize |-> IF Len(fullState.channels) > 0
                                    THEN Len(fullState.channels[1].buffer) ELSE 0]]]

\* mutant of LoadLoop: a stage that fails is skipped and the loop goes on
RECURSIVE LoadLoopSkipping(_, _, _)
LoadLoopSkipping(stages, entries, i) ==
    IF i > Len(entries) THEN [stages |-> stages, err |-> "ok"]
    ELSE IF ~entries[i].hasState THEN LoadLoopSkipping(stages, entries, i + 1)
    ELSE LET r == deserializeState(stages[i], entries[i].state) IN
         LoadLoopSkipping([stages EXCEPT ![i] = Deserialized(stages[i], r)], entries, i + 1)

\* the restore loop of LoadState from stage i on: the first deserializeState
\* that throws ends the loop, with the stages as they are by then
RECURSIVE LoadLoop(_, _, _)
LoadLoop(stages, entries, i) ==
    IF i > Len(entries) THEN [stages |-> stages, err |-> "ok"]
    ELSE IF ~entries[i].hasState THEN LoadLoop(stages, entries, i + 1)
    ELSE LET r == deserializeState(stages[i], entries[i].state)
             now == [stages EXCEPT ![i] = Deserialized(stages[i], r)] IN
         IF r.err # "ok" THEN [stages |-> now, err |-> "LoadFailed"]
         ELSE LoadLoop(now, entries, i + 1)

\* mutant of loadState: the number of stages is not compared
loadStateAnyCount(stages, snap) ==
    IF ~snap.hasStages THEN [stages |-> stages, err |-> "InvalidState"]
    ELSE LoadLoop(stages, SubSeq(snap.stages, 1, Min(Len(snap.stages), Len(stages))), 1)

\* LoadState: [stages, err] after the call
loadState(stages, snap) ==
    IF ~snap.hasStages THEN [stages |-> stages, err |-> "InvalidState"]
    ELSE IF Len(snap.stages) # Len(stages)
         THEN [stages |-> stages, err |-> "StageCountMismatch"]
         ELSE LoadLoop(stages, snap.stages, 1)

\* mutant of clearState: the last stage is left as it is
clearStateButLast(stages) ==
    [i \in 1..Len(stages) |-> IF i = Len(stages) THEN stages[i] ELSE reset(stages[i])]

\* ClearState: reset of every stage
clearState(stages) == [i \in 1..Len(stages) |-> reset(stages[i])]

-----------------------------------------------------------------------------
(* Each specification drives one component and holds the others still in  *)
(* these states.                                                           *)

RingIdle ==
    /\ ring = RingNew(1, 0)
    /\ ringHist = <<>>
    /\ ringOnlyOw = TRUE
    /\ ringOps = 0
    /\ ringLast = [op |-> "new", ok |-> TRUE, pre |-> RingNew(1, 0)]
    /\ ringMade = 1
    /\ ringWritten = {}

EngIdle ==
    /\ engKind = "Mean"
    /\ eng = EngineNew("Mean", 1)
    /\ engLast = "new"
    /\ engCleared = FALSE
    /\ engOps = 0
    /\ engCalls = [pre |-> eng, calls |-> <<>>]

StageIdle ==
    /\ stage = StageNew("movingAverage", "Batch", 0)
    /\ saved = serializeState(StageNew("movingAverage", "Batch", 0))
    /\ stOut = <<>>
    /\ stLast = [op |-> "new", err |-> "ok", pre |-> <<>>]
    /\ shadow = <<>>
    /\ shadowOut = <<>>
    /\ hist = <<>>
    /\ stExpect = <<>>
    /\ pure = TRUE
    /\ stOps = 0

PipeIdle ==
    /\ m_stages = <<>>
    /\ calls = [c \in CallIds |-> NoCall]
    /\ alive = TRUE

DerivedIdle ==
    /\ flt = DerivedNew("Wamp", 1, 0)
    /\ fltRt = DerivedNew("Wamp", 1, 0)
    /\ fltHist = <<>>
    /\ fltOut = Zero
    /\ fltRtOut = Zero
    /\ fltLast = [op |-> "new", fed |-> FALSE]
    /\ fltOps = 0

FftIdle ==
    /\ fft = FftNew(1, 0, "Batched")
    /\ fftHist = <<>>
    /\ fftLast = [op |-> "new", computed |-> FALSE, frame |-> <<>>]
    /\ fftOps = 0

TsbIdle ==
    /\ tsb = TimeSeriesBufferNew(0, 0)
    /\ tsbHist = <<>>
    /\ tsbLast = [op |-> "new", timestamp |-> 0, value |-> 0]
    /\ tsbOps = 0

StateIdle ==
    /\ pipeline = <<>>
    /\ snapshot = saveState(<<>>)
    /\ plLast = [op |-> "new", err |-> "ok", pre |-> <<>>]
    /\ plOps = 0

-----------------------------------------------------------------------------
(* SpecRing: a ring window driven by its public operations *)

RingInit ==
    /\ \E size \in 0..MaxCap : ring = RingNew(size, 0)
    /\ ringHist = <<>>
    /\ ringOnlyOw = TRUE
    /\ ringOps = 0
    /\ ringLast = [op |-> "new", ok |-> TRUE, pre |-> ring]
    /\ ringMade = ring.capacity
    /\ ringWritten = {}
    /\ EngIdle
    /\ StageIdle
    /\ PipeIdle
    /\ StateIdle
    /\ DerivedIdle
    /\ FftIdle
    /\ TsbIdle

RingPushOverwrite ==
    /\ RingFrame
    /\ ringOps < MaxRingOps
    /\ \E v \in RingVals :
          /\ ring' = pushOverwrite(ring, v)
          /\ ringHist' = Append(ringHist, v)
    /\ ringWritten' = ringWritten \cup {ring.head}
    /\ ringLast' = [op |-> "pushOverwrite", ok |-> TRUE, pre |-> ring]
    /\ ringOps' = ringOps + 1
    /\ UNCHANGED <<ringOnlyOw, ringMade>>

RingPush ==
    /\ RingFrame
    /\ ringOps < MaxRingOps
    /\ \E v \in RingVals : ring' = push(ring, v)
    /\ ringLast' = [op |-> "push", ok |-> pushOk(ring), pre |-> ring]
    /\ ringWritten' = IF pushOk(ring) THEN ringWritten \cup {ring.head} ELSE ringWritten
    /\ ringOnlyOw' = FALSE
    /\ ringHist' = <<>>
    /\ ringOps' = ringOps + 1
    /\ UNCHANGED ringMade

RingPop ==
    /\ RingFrame
    /\ ringOps < MaxRingOps
    /\ ring' = pop(ring)
    /\ ringLast' = [op |-> "pop", ok |-> popOk(ring), pre |-> ring]
    /\ ringOnlyOw' = FALSE
    /\ ringHist' = <<>>
    /\ ringOps' = ringOps + 1
    /\ UNCHANGED <<ringMade, ringWritten>>

\* peek is const: it returns the oldest item or throws "Buffer is empty"
RingPeek ==
    /\ RingFrame
    /\ ringOps < MaxRingOps
    /\ ringLast' = [op |-> "peek", ok |-> peekOk(ring), pre |-> ring]
    /\ ringOps' = ringOps + 1
    /\ UNCHANGED <<ring, ringHist, ringOnlyOw, ringMade, ringWritten>>

RingClear ==
    /\ RingFrame
    /\ ringOps < MaxRingOps
    /\ ring' = clear(ring)
    /\ ringLast' = [op |-> "clear", ok |-> TRUE, pre |-> ring]
    /\ ringWritten' = {}
    /\ ringHist' = <<>>
    /\ ringOnlyOw' = TRUE
    /\ ringOps' = ringOps + 1
    /\ UNCHANGED ringMade

RingFromVector ==
    /\ RingFrame
    /\ ringOps < MaxRingOps
    /\ \E data \in SeqsUpTo(RingVals, ring.capacity + 1) :
          /\ ring' = fromVector(ring, data)
          /\ ringHist' = data
          /\ ringWritten' = writtenBy(clear(ring), data)
    /\ ringLast' = [op |-> "fromVector", ok |-> TRUE, pre |-> ring]
    /\ ringOnlyOw' = TRUE
    /\ ringOps' = ringOps + 1
    /\ UNCHANGED ringMade

RingNext ==
    \/ RingPushOverwrite
    \/ RingPush
    \/ RingPop
    \/ RingPeek
    \/ RingClear
    \/ RingFromVector

SpecRing == RingInit /\ [][RingNext]_vars

-----------------------------------------------------------------------------
(* SpecEngine: one windowed engine driven by addSample and clear *)

EngVals(kind) == IF kind = "Counter" THEN BOOLEAN ELSE {-1, 2, 3}

\* the filter classes refuse a window size of 0; the bare engine takes it as 1
EngInit ==
    /\ engKind \in EngineKinds
    /\ \E size \in 0..MaxWin :
          /\ (engKind = "ZScore" => size > 0)
          /\ eng = EngineNew(engKind, size)
    /\ engLast = "new"
    /\ engCleared = FALSE
    /\ engOps = 0
    /\ engCalls = [pre |-> eng, calls |-> <<>>]
    /\ RingIdle
    /\ StageIdle
    /\ PipeIdle
    /\ StateIdle
    /\ DerivedIdle
    /\ FftIdle
    /\ TsbIdle

EngAddSample ==
    /\ EngFrame
    /\ engOps < MaxEngOps
    /\ \E v \in EngVals(engKind) :
          /\ eng' = addSample(engKind, eng, v)
          /\ engCalls' = [pre |-> eng, calls |-> addSampleCalls(engKind, eng, v)]
    /\ engLast' = IF isFull(eng.m_buffer) THEN "evict" ELSE "add"
    /\ engOps' = engOps + 1
    /\ UNCHANGED <<engKind, engCleared>>

EngClear ==
    /\ EngFrame
    /\ engOps < MaxEngOps
    /\ eng' = engineClear(eng)
    /\ engCalls' = [pre |-> eng, calls |-> <<>>]
    /\ engLast' = "clear"
    /\ engCleared' = TRUE
    /\ engOps' = engOps + 1
    /\ UNCHANGED engKind

EngNext ==
    \/ EngAddSample
    \/ EngClear

SpecEngine == EngInit /\ [][EngNext]_vars

-----------------------------------------------------------------------------
(* SpecStage: one stage driven by process, reset, serializeState and       *)
(* deserializeState.  A state tree is saved, may be edited outside the     *)
(* program, and is loaded back.                                            *)

\* sums of these stay below 2^24 in every aggregate of the stage's type
StSamples(type) == IF type = "movingAverage" THEN {-1, 10000} ELSE {2, 100}

TamperDeltas == {1, -2}

\* per channel, the last min(k, W) inputs, and the mean after each sample
RECURSIVE HistLoop(_, _, _, _, _, _)
HistLoop(h, expect, buffer, i, numChannels, W) ==
    IF i > Len(buffer) THEN [hist |-> h, expect |-> expect]
    ELSE LET c == ((i - 1) % numChannels) + 1
             all == Append(h[c], buffer[i])
             last == LastN(all, Min(Len(all), W))
         IN HistLoop([h EXCEPT ![c] = last],
                     Append(expect, Lin(SeqSum(last), Len(last))),
                     buffer, i + 1, numChannels, W)

HistProcess(h, buffer, numChannels, W) ==
    HistLoop(IF Len(h) # numChannels THEN [c \in 1..numChannels |-> <<>>] ELSE h,
             <<>>, buffer, 1, numChannels, W)

TracksMean == stage.type = "movingAverage" /\ stage.m_mode = "Moving"

StInit ==
    /\ \E type \in StageTypes, mode \in {"Moving", "Batch"}, w \in 1..MaxWin :
          stage = StageNew(type, mode, IF mode = "Moving" THEN w ELSE 0)
    /\ saved = serializeState(stage)
    /\ stOut = <<>>
    /\ stLast = [op |-> "new", err |-> "ok", pre |-> <<>>]
    /\ shadow = <<>>
    /\ shadowOut = <<>>
    /\ hist = <<>>
    /\ stExpect = <<>>
    /\ pure = TRUE
    /\ stOps = 0
    /\ RingIdle
    /\ EngIdle
    /\ PipeIdle
    /\ StateIdle
    /\ DerivedIdle
    /\ FftIdle
    /\ TsbIdle

\* process(buffer, numSamples, numChannels).  numChannels = 0 with samples
\* divides by zero (i % numChannels); that call is left to the pipeline model.
StProcess ==
    /\ StageFrame
    /\ \E numChannels \in 0..MaxCh, buffer \in SeqsUpTo(StSamples(stage.type), MaxBuf) :
          LET r == process(stage, buffer, numChannels)
              twin == process([stage EXCEPT !.m_filters = shadow], buffer, numChannels)
              h == HistProcess(hist, buffer, numChannels, stage.m_window_size)
          IN /\ numChannels = 0 => buffer = <<>>
             /\ stOps + Max(1, Len(buffer)) <= MaxStOps
             /\ stOps' = stOps + Max(1, Len(buffer))
             /\ stage' = [stage EXCEPT !.m_filters = r.filters]
             /\ stOut' = r.out
             /\ shadow' = IF pure THEN twin.filters ELSE r.filters
             /\ shadowOut' = IF pure THEN twin.out ELSE r.out
             /\ hist' = IF pure /\ TracksMean THEN h.hist ELSE <<>>
             /\ stExpect' = IF pure /\ TracksMean THEN h.expect ELSE <<>>
             /\ stLast' = [op |-> "process", err |-> "ok", pre |-> <<>>]
    /\ UNCHANGED <<saved, pure>>

StReset ==
    /\ StageFrame
    /\ stOps < MaxStOps
    /\ stOps' = stOps + 1
    /\ stage' = reset(stage)
    /\ shadow' = IF pure THEN reset([stage EXCEPT !.m_filters = shadow]).m_filters
                 ELSE stage'.m_filters
    /\ hist' = [c \in 1..Len(hist) |-> <<>>]
    /\ stLast' = [op |-> "reset", err |-> "ok", pre |-> <<>>]
    /\ UNCHANGED <<saved, stOut, shadowOut, stExpect, pure>>

\* deserializeState(serializeState()) on the stage itself
StRoundTrip ==
    /\ StageFrame
    /\ stOps < MaxStOps
    /\ stOps' = stOps + 1
    /\ LET r == deserializeState(stage, serializeState(stage)) IN
          /\ stage' = Deserialized(stage, r)
          /\ stLast' = [op |-> "roundtrip", err |-> r.err, pre |-> <<>>]
          /\ shadow' = IF pure THEN shadow ELSE r.filters
    /\ UNCHANGED <<saved, stOut, shadowOut, hist, stExpect, pure>>

StSave ==
    /\ StageFrame
    /\ stOps < MaxStOps
    /\ stOps' = stOps + 1
    /\ saved' = serializeState(stage)
    /\ stLast' = [op |-> "save", err |-> "ok", pre |-> <<>>]
    /\ UNCHANGED <<stage, stOut, shadow, shadowOut, hist, stExpect, pure>>

\* The tree just saved is edited once before it is used.
\* Edit: a stored aggregate is changed, the buffer is not
StTamperAggregate ==
    /\ StageFrame
    /\ stOps < MaxStOps
    /\ stLast.op = "save"
    /\ stLast' = [stLast EXCEPT !.op = "edit"]
    /\ stOps' = stOps + 1
    /\ \E k \in 1..Len(saved.channels), d \in TamperDeltas, sq \in BOOLEAN :
          /\ sq = (stage.type = "rms") \/ stage.type = "zScoreNormalize"
          /\ saved' = IF sq
                THEN [saved EXCEPT !.channels[k].runningSumOfSquares = @ + d]
                ELSE [saved EXCEPT !.channels[k].runningSum = @ + d]
    /\ UNCHANGED <<stage, stOut, shadow, shadowOut, hist, stExpect, pure>>

\* Edit: a channel gets one more sample, aggregates to match
StTamperAppend ==
    /\ StageFrame
    /\ stOps < MaxStOps
    /\ stLast.op = "save"
    /\ stLast' = [stLast EXCEPT !.op = "edit"]
    /\ stOps' = stOps + 1
    /\ \E k \in 1..Len(saved.channels), v \in StSamples(stage.type) :
          /\ Len(saved.channels[k].buffer) <= stage.m_window_size
          /\ saved' = [saved EXCEPT
                !.channels[k].buffer = Append(@, v),
                !.channels[k].runningSum = IF stage.type = "rms" THEN @ ELSE @ + v,
                !.channels[k].runningSumOfSquares =
                    IF stage.type = "movingAverage" THEN @ ELSE @ + v * v]
    /\ UNCHANGED <<stage, stOut, shadow, shadowOut, hist, stExpect, pure>>

\* Edit: the mode, the window size or the channel list
StTamperHeader ==
    /\ StageFrame
    /\ stOps < MaxStOps
    /\ stLast.op = "save"
    /\ stLast' = [stLast EXCEPT !.op = "edit"]
    /\ stOps' = stOps + 1
    /\ \/ \E m \in ModeStrings \ {saved.mode} : saved' = [saved EXCEPT !.mode = m]
       \/ /\ saved.hasWindow
          /\ \E w \in (1..(MaxWin + 1)) \ {saved.windowSize} :
                saved' = [saved EXCEPT !.windowSize = w]
       \/ /\ saved.channels # <<>>
          /\ saved' = [saved EXCEPT !.channels = SubSeq(@, 1, Len(@) - 1)]
    /\ UNCHANGED <<stage, stOut, shadow, shadowOut, hist, stExpect, pure>>

\* deserializeState(saved)
StLoad ==
    /\ StageFrame
    /\ stOps < MaxStOps
    /\ stOps' = stOps + 1
    /\ LET r == deserializeState(stage, saved) IN
          /\ stage' = Deserialized(stage, r)
          /\ stLast' = [op |-> "load", err |-> r.err, pre |-> stage.m_filters]
          /\ shadow' = r.filters
    /\ pure' = FALSE
    /\ hist' = <<>>
    /\ stExpect' = <<>>
    /\ shadowOut' = stOut
    /\ UNCHANGED <<saved, stOut>>

StNext ==
    \/ StProcess
    \/ StReset
    \/ StRoundTrip
    \/ StSave
    \/ StTamperAggregate
    \/ StTamperAppend
    \/ StTamperHeader
    \/ StLoad

SpecStage == StInit /\ [][StNext]_vars

-----------------------------------------------------------------------------
(* SpecPipe: process calls on one pipeline.  ProcessAsync runs on the       *)
(* caller's thread, Execute on a thread of the pool, OnOK and OnError on    *)
(* the caller's thread again.                                               *)

PipeInit ==
    /\ m_stages \in UNION {[1..n -> StageBehaviours] : n \in 1..MaxStages}
    /\ calls = [c \in CallIds |-> NoCall]
    /\ alive = TRUE
    /\ RingIdle
    /\ EngIdle
    /\ StageIdle
    /\ StateIdle
    /\ DerivedIdle
    /\ FftIdle
    /\ TsbIdle

\* ProcessAsync: read the arguments, create the promise and the worker, Queue
ProcessAsync(c) ==
    /\ PipeFrame
    /\ alive
    /\ calls[c].st = "idle"
    /\ \E channels \in PipeChannels, numSamples \in 0..1 :
          calls' = [calls EXCEPT ![c] = [@ EXCEPT !.st = "queued",
                                                  !.channels = channels,
                                                  !.numSamples = numSamples]]
    /\ UNCHANGED <<m_stages, alive>>

\* a pool thread takes the worker and enters Execute
ExecuteBegin(c) ==
    /\ PipeFrame
    /\ alive
    /\ calls[c].st = "queued"
    /\ calls' = [calls EXCEPT ![c] = [@ EXCEPT !.st = "running", !.pos = 1]]
    /\ UNCHANGED <<m_stages, alive>>

\* one turn of the loop of Execute: stage->process returns, throws into the
\* catch (SetError), or, where its behaviour is undefined, may end the process
ExecuteStage(c) ==
    /\ PipeFrame
    /\ alive
    /\ calls[c].st = "running"
    /\ \/ /\ m_stages[calls[c].pos] = "Throws"
          /\ calls' = [calls EXCEPT ![c] = StageThrew(calls[c], Len(m_stages))]
          /\ UNCHANGED alive
       \/ /\ m_stages[calls[c].pos] # "Throws"
          /\ calls' = [calls EXCEPT ![c] = StageReturned(calls[c], Len(m_stages))]
          /\ UNCHANGED alive
       \/ /\ Undefined(c)
          /\ alive' = FALSE
          /\ UNCHANGED calls
    /\ UNCHANGED m_stages

\* OnOK: the promise is resolved with the buffer
OnOK(c) ==
    /\ PipeFrame
    /\ alive
    /\ calls[c].st = "done"
    /\ ~calls[c].err
    /\ calls' = [calls EXCEPT ![c] = [@ EXCEPT !.st = "settled", !.resolved = @ + 1]]
    /\ UNCHANGED <<m_stages, alive>>

\* OnError: the promise is rejected with the error
OnError(c) ==
    /\ PipeFrame
    /\ alive
    /\ calls[c].st = "done"
    /\ calls[c].err
    /\ calls' = [calls EXCEPT ![c] = [@ EXCEPT !.st = "settled", !.rejected = @ + 1]]
    /\ UNCHANGED <<m_stages, alive>>

PipeNext ==
    \E c \in CallIds :
        \/ ProcessAsync(c)
        \/ ExecuteBegin(c)
        \/ ExecuteStage(c)
        \/ OnOK(c)
        \/ OnError(c)

\* a queued worker is run, and a finished worker's completion is delivered
PipeFair ==
    \A c \in CallIds :
        /\ WF_vars(ExecuteBegin(c))
        /\ WF_vars(ExecuteStage(c))
        /\ WF_vars(OnOK(c))
        /\ WF_vars(OnError(c))

SpecPipe == PipeInit /\ [][PipeNext]_vars /\ PipeFair

-----------------------------------------------------------------------------
(* SpecState: the synchronous calls of one pipeline: addStage, saveState,   *)
(* loadState and clearState, all on the caller's thread.                    *)

StageNames == StageTypes \cup {"bogus"}

StageParams ==
    [mode : ModeStrings, hasWindowSize : BOOLEAN, windowSize : 0..MaxWin,
     hasEpsilon : {FALSE}, epsilon : {DefaultEpsilon}]

\* a channel of a state tree whose aggregates are those of its buffer, and
\* one whose aggregates are not
GoodChannel == [buffer |-> <<2>>, runningSum |-> 2, runningSumOfSquares |-> 4]

BadChannel == [buffer |-> <<2>>, runningSum |-> 1000, runningSumOfSquares |-> 1000]

StateTrees ==
    {[mode |-> "batch", hasWindow |-> FALSE, windowSize |-> 0, channels |-> <<>>,
      epsilon |-> DefaultEpsilon]}
    \cup {[mode |-> "moving", hasWindow |-> TRUE, windowSize |-> MaxWin, channels |-> chs,
           epsilon |-> DefaultEpsilon] :
            chs \in {<<>>, <<GoodChannel>>, <<BadChannel>>}}

StageEntries ==
    {[type |-> "movingAverage", hasState |-> TRUE, state |-> t] : t \in StateTrees}
    \cup {[type |-> "movingAverage", hasState |-> FALSE, state |-> <<>>]}

\* the JSON strings given to loadState, parsed: one without a stages field,
\* and stage lists up to the longest pipeline
Snapshots ==
    {[hasStages |-> FALSE, stages |-> <<>>]}
    \cup {[hasStages |-> TRUE, stages |-> es] : es \in SeqsUpTo(StageEntries, MaxStages)}

PlInit ==
    /\ pipeline = <<>>
    /\ snapshot = saveState(<<>>)
    /\ plLast = [op |-> "new", err |-> "ok", pre |-> <<>>]
    /\ plOps = 0
    /\ RingIdle
    /\ EngIdle
    /\ StageIdle
    /\ PipeIdle
    /\ DerivedIdle
    /\ FftIdle
    /\ TsbIdle

AddStage ==
    /\ StateFrame
    /\ plOps < MaxPlOps
    /\ plOps' = plOps + 1
    /\ \E name \in StageNames, params \in StageParams :
          LET r == addStage(pipeline, name, params) IN
          /\ Len(pipeline) < MaxStages
          /\ params.hasWindowSize \/ params.windowSize = 0
          /\ pipeline' = r.stages
          /\ plLast' = [op |-> "addStage", err |-> r.err, pre |-> pipeline,
                         arg |-> [name |-> name, params |-> params]]
    /\ UNCHANGED snapshot

SaveState ==
    /\ StateFrame
    /\ plOps < MaxPlOps
    /\ plOps' = plOps + 1
    /\ snapshot' = saveState(pipeline)
    /\ plLast' = [op |-> "saveState", err |-> "ok", pre |-> pipeline]
    /\ UNCHANGED pipeline

ListState ==
    /\ StateFrame
    /\ plOps < MaxPlOps
    /\ plOps' = plOps + 1
    /\ plLast' = [op |-> "listState", err |-> "ok", pre |-> pipeline,
                  out |-> listState(pipeline)]
    /\ UNCHANGED <<pipeline, snapshot>>

LoadState ==
    /\ StateFrame
    /\ plOps < MaxPlOps
    /\ plOps' = plOps + 1
    /\ \E snap \in Snapshots \cup {snapshot} :
          LET r == loadState(pipeline, snap) IN
          /\ pipeline' = r.stages
          /\ plLast' = [op |-> "loadState", err |-> r.err, pre |-> pipeline, arg |-> snap]
    /\ UNCHANGED snapshot

ClearState ==
    /\ StateFrame
    /\ plOps < MaxPlOps
    /\ plOps' = plOps + 1
    /\ pipeline' = clearState(pipeline)
    /\ plLast' = [op |-> "clearState", err |-> "ok", pre |-> pipeline]
    /\ UNCHANGED snapshot

PlNext ==
    \/ AddStage
    \/ SaveState
    \/ ListState
    \/ LoadState
    \/ ClearState

SpecState == PlInit /\ [][PlNext]_vars

-----------------------------------------------------------------------------
(* Specification SpecProcess: one stage of any type and mode, process      *)
(* calls on interleaved buffers of up to MaxPrBuf samples and up to        *)
(* MaxPrCh channels, reset, serializeState.  stLast keeps the call's       *)
(* arguments and the engines before it; hist keeps, per channel, the       *)
(* samples given to the channel's engine since it was built or cleared.    *)

\* hist after process(buffer, numChannels)
PrHistory(h, buffer, numChannels) ==
    LET base == IF Len(h) # numChannels THEN [c \in 1..numChannels |-> <<>>] ELSE h
    IN [c \in 1..numChannels |-> base[c] \o Strided(buffer, c - 1, numChannels)]

PrInit ==
    /\ \E type \in StageTypes, mode \in {"Moving", "Batch"}, w \in 0..MaxWin :
          /\ mode = "Moving" => w > 0
          /\ stage = StageNew(type, mode, w)
    /\ saved = serializeState(stage)
    /\ stOut = <<>>
    /\ stLast = [op |-> "new", err |-> "ok", pre |-> <<>>]
    /\ shadow = <<>>
    /\ shadowOut = <<>>
    /\ hist = <<>>
    /\ stExpect = <<>>
    /\ pure = TRUE
    /\ stOps = 0
    /\ RingIdle
    /\ EngIdle
    /\ PipeIdle
    /\ StateIdle
    /\ DerivedIdle
    /\ FftIdle
    /\ TsbIdle

\* process(buffer, numSamples, numChannels).  In Moving mode numChannels = 0
\* with samples divides by zero (i % numChannels); that call is left to the
\* pipeline model.
PrProcess ==
    /\ StageFrame
    /\ \E numChannels \in 0..MaxPrCh, buffer \in SeqsUpTo(StSamples(stage.type), MaxPrBuf) :
          LET r == process(stage, buffer, numChannels)
          IN /\ (stage.m_mode = "Moving" /\ numChannels = 0) => buffer = <<>>
             /\ stOps + Max(1, Len(buffer)) <= MaxPrOps
             /\ stOps' = stOps + Max(1, Len(buffer))
             /\ stage' = [stage EXCEPT !.m_filters = r.filters]
             /\ stOut' = r.out
             /\ hist' = IF stage.m_mode = "Moving"
                        THEN PrHistory(hist, buffer, numChannels) ELSE <<>>
             /\ stLast' = [op |-> "process", err |-> "ok", pre |-> stage.m_filters,
                           buffer |-> buffer, numChannels |-> numChannels,
                           histPre |-> hist]
    /\ UNCHANGED <<saved, shadow, shadowOut, stExpect, pure>>

PrReset ==
    /\ StageFrame
    /\ stOps < MaxPrOps
    /\ stOps' = stOps + 1
    /\ stage' = reset(stage)
    /\ hist' = [c \in 1..Len(hist) |-> <<>>]
    /\ stLast' = [op |-> "reset", err |-> "ok", pre |-> stage.m_filters]
    /\ UNCHANGED <<saved, stOut, shadow, shadowOut, stExpect, pure>>

PrSave ==
    /\ StageFrame
    /\ stOps < MaxPrOps
    /\ stOps' = stOps + 1
    /\ saved' = serializeState(stage)
    /\ stLast' = [op |-> "save", err |-> "ok", pre |-> stage.m_filters]
    /\ UNCHANGED <<stage, stOut, shadow, shadowOut, hist, stExpect, pure>>

PrNext ==
    \/ PrProcess
    \/ PrReset
    \/ PrSave

SpecProcess == PrInit /\ [][PrNext]_vars

-----------------------------------------------------------------------------
(* Specification SpecConfig: a pipeline built by addStage from every       *)
(* registered name with well and ill formed parameters, and the methods    *)
(* of its stages called one at a time: process, reset, serializeState      *)
(* (through saveState), deserializeState.  plLast keeps the call's         *)
(* arguments and the stages before it.                                     *)

ConfigModes == ModeStrings \cup {"half"}

\* epsilon arguments, in units of the default: negative, zero, positive
EpsilonValues == {-1, 0, 2}

ConfigParams ==
    [mode : ConfigModes, hasWindowSize : BOOLEAN, windowSize : 0..1,
     hasEpsilon : BOOLEAN, epsilon : EpsilonValues]

\* state trees given to deserializeState
ConfigTrees ==
    [mode : ModeStrings \cup {"half", "full"},
     hasWindow : {TRUE}, windowSize : {1},
     channels : {<<>>, <<GoodChannel>>, <<BadChannel>>},
     epsilon : {DefaultEpsilon, 2}]

CfInit == PlInit

CfAddStage ==
    /\ StateFrame
    /\ plOps < MaxCfOps
    /\ plOps' = plOps + 1
    /\ \E name \in Registry, params \in ConfigParams :
          LET r == addStage(pipeline, name, params) IN
          /\ Len(pipeline) < MaxStages
          /\ params.hasWindowSize \/ params.windowSize = 0
          /\ params.hasEpsilon \/ params.epsilon = 0
          /\ pipeline' = r.stages
          /\ plLast' = [op |-> "addStage", err |-> r.err, pre |-> pipeline,
                         arg |-> [name |-> name, params |-> params]]
    /\ UNCHANGED snapshot

\* m_stages[i]->process on a buffer of one sample of one channel
CfProcess ==
    /\ StateFrame
    /\ plOps < MaxCfOps
    /\ plOps' = plOps + 1
    /\ \E i \in 1..Len(pipeline) :
          LET r == process(pipeline[i], <<2>>, 1) IN
          /\ pipeline' = [pipeline EXCEPT ![i].m_filters = r.filters]
          /\ plLast' = [op |-> "process", err |-> "ok", pre |-> pipeline]
    /\ UNCHANGED snapshot

\* m_stages[i]->reset
CfReset ==
    /\ StateFrame
    /\ plOps < MaxCfOps
    /\ plOps' = plOps + 1
    /\ \E i \in 1..Len(pipeline) :
          /\ pipeline' = [pipeline EXCEPT ![i] = reset(pipeline[i])]
          /\ plLast' = [op |-> "reset", err |-> "ok", pre |-> pipeline]
    /\ UNCHANGED snapshot

\* serializeState of every stage, as SaveState calls it
CfSerialize ==
    /\ StateFrame
    /\ plOps < MaxCfOps
    /\ plOps' = plOps + 1
    /\ snapshot' = saveState(pipeline)
    /\ plLast' = [op |-> "serializeState", err |-> "ok", pre |-> pipeline]
    /\ UNCHANGED pipeline

\* m_stages[i]->deserializeState(tree), returning or throwing
CfDeserialize ==
    /\ StateFrame
    /\ plOps < MaxCfOps
    /\ plOps' = plOps + 1
    /\ \E i \in 1..Len(pipeline) :
          \E tree \in ConfigTrees \cup {serializeState(pipeline[i])} :
              LET r == deserializeState(pipeline[i], tree) IN
              /\ pipeline' = [pipeline EXCEPT ![i] = Deserialized(pipeline[i], r)]
              /\ plLast' = [op |-> "deserializeState", err |-> r.err, pre |-> pipeline,
                             arg |-> [i |-> i, tree |-> tree]]
    /\ UNCHANGED snapshot

CfNext ==
    \/ CfAddStage
    \/ CfProcess
    \/ CfReset
    \/ CfSerialize
    \/ CfDeserialize

SpecConfig == CfInit /\ [][CfNext]_vars

-----------------------------------------------------------------------------
(* Specification SpecDerived: one derived filter fed samples and cleared,  *)
(* and a second filter that is given the same calls and, in between,       *)
(* setState(getState()) on itself.                                         *)

FltSamples == {0, 2, 5}

FltThresholds == {1}

DerivedInit ==
    /\ \E kind \in DerivedKinds, window_size \in 1..MaxFltWin, threshold \in FltThresholds :
          /\ flt = DerivedNew(kind, window_size, threshold)
          /\ fltRt = DerivedNew(kind, window_size, threshold)
    /\ fltHist = <<>>
    /\ fltOut = Zero
    /\ fltRtOut = Zero
    /\ fltLast = [op |-> "new", fed |-> FALSE]
    /\ fltOps = 0
    /\ RingIdle
    /\ EngIdle
    /\ StageIdle
    /\ PipeIdle
    /\ StateIdle
    /\ FftIdle
    /\ TsbIdle

FltAddSample ==
    /\ DerivedFrame
    /\ fltOps < MaxFltOps
    /\ fltOps' = fltOps + 1
    /\ \E x \in FltSamples :
          LET r == derivedAddSample(flt, x)
              rt == derivedAddSample(fltRt, x)
          IN /\ flt' = r.flt
             /\ fltOut' = r.out
             /\ fltRt' = rt.flt
             /\ fltRtOut' = rt.out
             /\ fltHist' = Append(fltHist, x)
             /\ fltLast' = [op |-> "addSample", fed |-> r.fed]

FltClear ==
    /\ DerivedFrame
    /\ fltOps < MaxFltOps
    /\ fltOps' = fltOps + 1
    /\ flt' = derivedClear(flt)
    /\ fltRt' = derivedClear(fltRt)
    /\ fltHist' = <<>>
    /\ fltLast' = [op |-> "clear", fed |-> FALSE]
    /\ UNCHANGED <<fltOut, fltRtOut>>

\* setState(getState()) on the second filter
FltRoundTrip ==
    /\ DerivedFrame
    /\ fltOps < MaxFltOps
    /\ fltOps' = fltOps + 1
    /\ fltRt' = derivedSetState(fltRt, derivedGetState(fltRt))
    /\ fltLast' = [op |-> "roundtrip", fed |-> FALSE]
    /\ UNCHANGED <<flt, fltHist, fltOut, fltRtOut>>

DerivedNext ==
    \/ FltAddSample
    \/ FltClear
    \/ FltRoundTrip

SpecDerived == DerivedInit /\ [][DerivedNext]_vars

-----------------------------------------------------------------------------
(* Specification SpecFft: one MovingFftFilter of either mode fed samples   *)
(* and reset.                                                              *)

FftSamples == {0, 1, 2}

FftInit ==
    /\ \E fftSize \in 1..MaxFft, hopSize \in 0..MaxFft, mode \in FftModes :
          /\ hopSize <= fftSize
          /\ fft = FftNew(fftSize, hopSize, mode)
    /\ fftHist = <<>>
    /\ fftLast = [op |-> "new", computed |-> FALSE, frame |-> <<>>]
    /\ fftOps = 0
    /\ RingIdle
    /\ EngIdle
    /\ StageIdle
    /\ PipeIdle
    /\ StateIdle
    /\ DerivedIdle
    /\ TsbIdle

FftAddSample ==
    /\ FftFrame
    /\ fftOps < MaxFftOps
    /\ fftOps' = fftOps + 1
    /\ \E sample \in FftSamples :
          LET r == fftAddSample(fft, sample) IN
          /\ fft' = r.fft
          /\ fftHist' = Append(fftHist, sample)
          /\ fftLast' = [op |-> "addSample", computed |-> r.computed, frame |-> r.frame]

FftReset ==
    /\ FftFrame
    /\ fftOps < MaxFftOps
    /\ fftOps' = fftOps + 1
    /\ fft' = fftReset(fft)
    /\ fftHist' = <<>>
    /\ fftLast' = [op |-> "reset", computed |-> FALSE, frame |-> <<>>]

FftNext ==
    \/ FftAddSample
    \/ FftReset

SpecFft == FftInit /\ [][FftNext]_vars

-----------------------------------------------------------------------------
(* Specification SpecTimeSeries: one TimeSeriesBuffer with a sample limit, *)
(* a time window, both or neither, pushed to and cleared.  A sample's      *)
(* value is the number of the call that pushed it.                         *)

TsbInit ==
    /\ \E max_samples \in 0..2, window_duration_ms \in 0..MaxTs :
          tsb = TimeSeriesBufferNew(max_samples, window_duration_ms)
    /\ tsbHist = <<>>
    /\ tsbLast = [op |-> "new", timestamp |-> 0, value |-> 0]
    /\ tsbOps = 0
    /\ RingIdle
    /\ EngIdle
    /\ StageIdle
    /\ PipeIdle
    /\ StateIdle
    /\ DerivedIdle
    /\ FftIdle

TsbPush ==
    /\ TsbFrame
    /\ tsbOps < MaxTsOps
    /\ tsbOps' = tsbOps + 1
    /\ \E timestamp \in 0..MaxTs :
          /\ tsb' = timeSeriesPush(tsb, timestamp, tsbOps + 1)
          /\ tsbHist' = Append(tsbHist, <<timestamp, tsbOps + 1>>)
          /\ tsbLast' = [op |-> "push", timestamp |-> timestamp, value |-> tsbOps + 1]

TsbClear ==
    /\ TsbFrame
    /\ tsbOps < MaxTsOps
    /\ tsbOps' = tsbOps + 1
    /\ tsb' = timeSeriesClear(tsb)
    /\ tsbHist' = <<>>
    /\ tsbLast' = [op |-> "clear", timestamp |-> 0, value |-> 0]

TsbNext ==
    \/ TsbPush
    \/ TsbClear

SpecTimeSeries == TsbInit /\ [][TsbNext]_vars

-----------------------------------------------------------------------------
(* Claims *)

\* the aggregate recomputed from the window's current contents
Recomputed(kind, contents) ==
    CASE kind \in {"Mean", "Sum"} ->
            [m_sum |-> SeqSum(contents), m_sum_sq |-> 0, m_count |-> 0]
      [] kind = "Rms" ->
            [m_sum |-> 0, m_sum_sq |-> SeqSumSq(contents), m_count |-> 0]
      [] kind = "MeanAbsoluteValue" ->
            [m_sum |-> SeqSumAbs(contents), m_sum_sq |-> 0, m_count |-> 0]
      [] kind \in {"Variance", "ZScore"} ->
            [m_sum |-> SeqSum(contents), m_sum_sq |-> SeqSumSq(contents), m_count |-> 0]
      [] kind = "Counter" ->
            [m_sum |-> 0, m_sum_sq |-> 0,
             m_count |-> Cardinality({i \in 1..Len(contents) : contents[i]})]

C3_RingFifo ==
    ringOnlyOw =>
        toVector(ring) = LastN(ringHist, Min(Len(ringHist), ring.capacity))

\* C3 witness: more values than the capacity were inserted, so the oldest were evicted
C3_Witness ==
    /\ ringOnlyOw
    /\ ring.capacity = 2
    /\ Len(ringHist) = 4
    /\ ringHist[1] # ringHist[3]
    /\ toVector(ring) = <<ringHist[3], ringHist[4]>>

-----------------------------------------------------------------------------
(* Claims about a stage, checked under SpecStage.  Samples are drawn from   *)
(* values whose sums and sums of squares float32 holds exactly.             *)

AggregateOff(stored, recomputed) ==
    10000 * Abs(stored - recomputed) > Max(1, Abs(recomputed))

SnapshotChannelOff(type, ch) ==
    \/ type # "rms" /\ AggregateOff(ch.runningSum, SeqSum(ch.buffer))
    \/ type # "movingAverage"
          /\ AggregateOff(ch.runningSumOfSquares, SeqSumSq(ch.buffer))

LoadedMoving ==
    /\ stLast.op = "load"
    /\ stage.m_mode = "Moving"
    /\ saved.mode = "moving"
    /\ saved.hasWindow
    /\ saved.windowSize = stage.m_window_size

\* C5: deserializeState of a Moving-mode tree in which a channel's stored
\* aggregate is off its buffer's by more than 0.0001 * max(1, |recomputed|)
\* fails with StateCorruption, and never succeeds.
C5_CorruptionRejected ==
    (LoadedMoving /\ \E k \in 1..Len(saved.channels) :
                        SnapshotChannelOff(stage.type, saved.channels[k]))
        => stLast.err = "StateCorruption"

\* a stored sum off by 1 where the recomputed sum is below 10000
C5_Witness ==
    /\ LoadedMoving
    /\ stLast.err = "StateCorruption"
    /\ \E k \in 1..Len(saved.channels) :
          /\ saved.channels[k].buffer # <<>>
          /\ SnapshotChannelOff(stage.type, saved.channels[k])
          /\ \/ Abs(saved.channels[k].runningSum - SeqSum(saved.channels[k].buffer)) = 1
             \/ Abs(saved.channels[k].runningSumOfSquares
                      - SeqSumSq(saved.channels[k].buffer)) = 1

\* the aggregates of an engine against its window's contents
EngineOff(type, f) ==
    LET now == toVector(f.m_buffer) IN
    \/ type # "rms" /\ AggregateOff(f.m_policy.m_sum, SeqSum(now))
    \/ type # "movingAverage" /\ AggregateOff(f.m_policy.m_sum_sq, SeqSumSq(now))

\* C6: after a deserializeState that succeeds on a Moving-mode stage, every
\* channel engine's running aggregate is within tolerance of the aggregate
\* of the engine's window contents.
C6_RestoredConsistent ==
    (LoadedMoving /\ stLast.err = "ok") =>
        \A k \in 1..Len(stage.m_filters) : ~EngineOff(stage.type, stage.m_filters[k])

\* C7: a deserializeState that fails with StateCorruption leaves the
\* engines (their number, windows and aggregates) as they were.
C7_FailedLoadAdoptsNothing ==
    (stLast.op = "load" /\ stLast.err = "StateCorruption") =>
        stage.m_filters = stLast.pre

\* C8: a tree whose mode is not the stage's fails with ModeMismatch; in
\* Moving mode a tree whose windowSize is not the stage's fails with
\* WindowSizeMismatch; both leave the engines as they were.
C8_HeaderMismatch ==
    stLast.op = "load" =>
        /\ saved.mode # serializeState(stage).mode =>
              stLast.err = "ModeMismatch" /\ stage.m_filters = stLast.pre
        /\ (saved.mode = "moving" /\ stage.m_mode = "Moving"
               /\ saved.windowSize # stage.m_window_size) =>
              stLast.err = "WindowSizeMismatch" /\ stage.m_filters = stLast.pre

-----------------------------------------------------------------------------
(* Claims about the pipeline, checked under SpecPipe *)

\* C9: at most one processing pass is in flight: a second pass does not
\* start executing stages until the first has finished.
C9_SingleFlight == Cardinality({c \in CallIds : calls[c].st = "running"}) <= 1

\* C10: every process call eventually signals completion exactly once,
\* success or failure and never both, after its worker has finished.
C10_CompletesOnce ==
    \A c \in CallIds :
        /\ [](calls[c].resolved + calls[c].rejected <= 1)
        /\ [](calls[c].resolved + calls[c].rejected = 1 => calls[c].st = "settled")
        /\ (calls[c].st = "queued") ~> (calls[c].resolved + calls[c].rejected = 1)

\* the first stage of the list that throws, 0 when none does
FirstThrow ==
    IF \E k \in 1..Len(m_stages) : m_stages[k] = "Throws"
    THEN CHOOSE k \in 1..Len(m_stages) :
            /\ m_stages[k] = "Throws"
            /\ \A j \in 1..(k - 1) : m_stages[j] # "Throws"
    ELSE 0

UpTo(n) == [i \in 1..n |-> i]

\* C11: a pass applies the stages in the order of the stage list, each to
\* the buffer the one before left: while the worker is at stage k the buffer
\* carries stages 1..k-1 in that order, and a pass that succeeds carries all.
C11_StagesInOrder ==
    \A c \in CallIds :
        /\ calls[c].st = "running" =>
              /\ calls[c].pos \in 1..Len(m_stages)
              /\ calls[c].applied = UpTo(calls[c].pos - 1)
        /\ (calls[c].st \in {"done", "settled"} /\ FirstThrow = 0) =>
              calls[c].applied = UpTo(Len(m_stages))

\* a pass over two stages was resolved with both applied
C11_Witness ==
    \E c \in CallIds :
        /\ Len(m_stages) = 2
        /\ calls[c].resolved = 1
        /\ calls[c].applied = <<1, 2>>

\* C12: when stage k throws, no stage after k runs in that pass, the buffer
\* keeps what stages 1..k-1 did, and the call is rejected, never resolved.
C12_FailureAborts ==
    \A c \in CallIds :
        (FirstThrow # 0 /\ calls[c].st \in {"done", "settled"}) =>
            /\ calls[c].applied = UpTo(FirstThrow - 1)
            /\ calls[c].resolved = 0
            /\ calls[c].st = "settled" => calls[c].rejected = 1

\* the second of two stages threw: the first one's work stays, the call is rejected
C12_Witness ==
    \E c \in CallIds :
        /\ FirstThrow = 2
        /\ calls[c].st = "settled"
        /\ calls[c].applied = <<1>>
        /\ calls[c].rejected = 1
        /\ calls[c].resolved = 0

-----------------------------------------------------------------------------
(* Claims about loadState, clearState and addStage, checked under SpecState *)

LoadedCounted ==
    /\ plLast.op = "loadState"
    /\ plLast.arg.hasStages

\* C13: loadState of a snapshot whose stages array is not as long as the
\* pipeline's stage list fails with StageCountMismatch and changes no stage.
C13_CountMismatch ==
    (LoadedCounted /\ Len(plLast.arg.stages) # Len(plLast.pre)) =>
        /\ plLast.err = "StageCountMismatch"
        /\ pipeline = plLast.pre

\* a pipeline of one stage with a restored engine refused a snapshot of two stages
C13_Witness ==
    /\ LoadedCounted
    /\ Len(pipeline) = 1
    /\ Len(plLast.arg.stages) = 2
    /\ plLast.arg.stages[1].hasState
    /\ plLast.arg.stages[1].state.channels = <<>>
    /\ pipeline[1].m_filters # <<>>
    /\ plLast.err = "StageCountMismatch"

\* deserializeState of entry i on the stage as it was before the call throws
EntryFails(i) ==
    /\ plLast.arg.stages[i].hasState
    /\ deserializeState(plLast.pre[i], plLast.arg.stages[i].state).err # "ok"

FirstFailing == CHOOSE i \in 1..Len(plLast.pre) :
                    EntryFails(i) /\ \A j \in 1..(i - 1) : ~EntryFails(j)

\* the stage holds what the tree says
HoldsTree(st, tree) ==
    \/ st.m_mode = "Batch"
    \/ /\ Len(st.m_filters) = Len(tree.channels)
       /\ \A k \in 1..Len(tree.channels) :
             /\ toVector(st.m_filters[k].m_buffer) = tree.channels[k].buffer
             /\ st.type # "rms" => st.m_filters[k].m_policy.m_sum = tree.channels[k].runningSum
             /\ st.type # "movingAverage" =>
                   st.m_filters[k].m_policy.m_sum_sq = tree.channels[k].runningSumOfSquares

\* C14: when deserializeState of stage i fails inside loadState, the load
\* reports failure, no stage after i is touched, and the stages before i
\* keep what was loaded from the snapshot.
C14_NoRollback ==
    (LoadedCounted /\ Len(plLast.arg.stages) = Len(plLast.pre)
        /\ \E i \in 1..Len(plLast.pre) : EntryFails(i)) =>
        /\ plLast.err = "LoadFailed"
        /\ \A j \in 1..Len(pipeline) :
              /\ j > FirstFailing => pipeline[j] = plLast.pre[j]
              /\ j < FirstFailing =>
                    IF plLast.arg.stages[j].hasState
                    THEN HoldsTree(pipeline[j], plLast.arg.stages[j].state)
                    ELSE pipeline[j] = plLast.pre[j]

\* the second of two stages failed after the first had taken a channel
C14_Witness ==
    /\ LoadedCounted
    /\ Len(pipeline) = 2
    /\ Len(plLast.arg.stages) = 2
    /\ ~EntryFails(1)
    /\ EntryFails(2)
    /\ plLast.err = "LoadFailed"
    /\ plLast.pre[1].m_filters = <<>>
    /\ pipeline[1].m_mode = "Moving"
    /\ Len(pipeline[1].m_filters) = 1
    /\ toVector(pipeline[1].m_filters[1].m_buffer) = <<2>>

\* C20: addStage with a name that is not registered fails with an
\* unknown-stage-type error and leaves the stage list as it was.
C20_UnknownStage ==
    (plLast.op = "addStage" /\ plLast.arg.name = "bogus") =>
        /\ plLast.err = "UnknownStageType"
        /\ pipeline = plLast.pre

\* "bogus" was refused by a pipeline that already had a stage
C20_Witness ==
    /\ plLast.op = "addStage"
    /\ plLast.arg.name = "bogus"
    /\ plLast.err = "UnknownStageType"
    /\ Len(pipeline) = 1

-----------------------------------------------------------------------------
(* Claims about process in Batch and Moving mode, checked under SpecProcess *)

Processed == stLast.op = "process"

\* the samples of the channel that buffer index i (1-based) belongs to
ChannelOf(i) == Strided(stLast.buffer, (i - 1) % stLast.numChannels, stLast.numChannels)

\* C15: a Batch mean stage replaces every sample of channel c with the mean
\* of exactly channel c's samples in the buffer, for every channel count
\* >= 1 and every buffer length, multiples of the channel count or not.
C15_BatchMean ==
    (Processed /\ stage.type = "movingAverage" /\ stage.m_mode = "Batch"
        /\ stLast.numChannels >= 1) =>
        \A i \in 1..Len(stLast.buffer) :
            stOut[i] = Lin(SeqSum(ChannelOf(i)), Len(ChannelOf(i)))

\* C16: a Batch stage is stateless: process creates no engines, the output
\* of a call is that of a newly built stage given the same buffer and
\* channel count, and serializeState writes the mode without the
\* windowSize/channels block.
C16_BatchStateless ==
    stage.m_mode = "Batch" =>
        /\ stage.m_filters = <<>>
        /\ Processed =>
              stOut = process(StageNew(stage.type, "Batch", 0),
                              stLast.buffer, stLast.numChannels).out
        /\ stLast.op = "save" =>
              /\ saved.mode = "batch"
              /\ ~saved.hasWindow
              /\ saved.channels = <<>>

\* a Batch stage built with a window size handled a second buffer, of two channels
C16_Witness ==
    /\ Processed
    /\ stage.m_mode = "Batch"
    /\ stage.m_window_size > 0
    /\ stLast.numChannels = 2
    /\ Len(stLast.buffer) = 2
    /\ stOps > 2
    /\ stOut # [i \in 1..2 |-> Lin(stLast.buffer[i], 1)]

\* channel c's samples before the call, as far as its engine has seen them
PriorOf(c) ==
    IF Len(stLast.histPre) = stLast.numChannels THEN stLast.histPre[c] ELSE <<>>

\* the outputs of a one-channel stage of the same type and window given samples
Alone(samples) ==
    MovingLoop(KindOf(stage.type), FreshFilters(stage.type, stage.m_window_size, 1),
               samples, <<>>, 1, 1).out

\* C17: in Moving mode sample i goes to engine i mod numChannels, in
\* increasing i, and channels are independent: the outputs at channel c's
\* positions are those of a run that sees channel c's samples only.
C17_ChannelsIndependent ==
    (Processed /\ stage.m_mode = "Moving" /\ stLast.numChannels >= 1) =>
        \A c \in 1..stLast.numChannels :
            LET own == Strided(stLast.buffer, c - 1, stLast.numChannels)
                alone == Alone(PriorOf(c) \o own)
            IN \A k \in 1..Len(own) :
                  stOut[c + (k - 1) * stLast.numChannels] = alone[Len(PriorOf(c)) + k]

\* two channels with different samples, each with samples from an earlier call
C17_Witness ==
    /\ Processed
    /\ stage.m_mode = "Moving"
    /\ stLast.numChannels = 2
    /\ Len(stLast.buffer) = 2
    /\ stLast.buffer[1] # stLast.buffer[2]
    /\ Len(stLast.histPre) = 2
    /\ stLast.histPre[1] # <<>>
    /\ stLast.histPre[2] # <<>>
    /\ stLast.histPre[1] # stLast.histPre[2]

\* C18: in Moving mode a process call leaves one engine per channel; with
\* the channel count of the previous call each engine continues from its
\* window and aggregate, with another count every engine starts empty
\* before the first sample of the call is processed.
C18_EnginesPerChannel ==
    (Processed /\ stage.m_mode = "Moving") =>
        /\ Len(stage.m_filters) = stLast.numChannels
        /\ \A c \in 1..stLast.numChannels :
              LET own == Strided(stLast.buffer, c - 1, stLast.numChannels)
                  before == IF Len(stLast.pre) = stLast.numChannels
                            THEN toVector(stLast.pre[c].m_buffer) ELSE <<>>
                  all == before \o own
                  window == LastN(all, Min(Len(all), stage.m_window_size))
              IN /\ stage.m_filters[c].m_buffer.capacity = stage.m_window_size
                 /\ toVector(stage.m_filters[c].m_buffer) = window
                 /\ stage.m_filters[c].m_policy = Recomputed(KindOf(stage.type), window)
        /\ Len(stLast.pre) # stLast.numChannels =>
              stOut = process(StageNew(stage.type, "Moving", stage.m_window_size),
                              stLast.buffer, stLast.numChannels).out

\* one engine holding samples was replaced by two engines that hold this call's samples
C18_Witness ==
    /\ Processed
    /\ stage.m_mode = "Moving"
    /\ Len(stLast.pre) = 1
    /\ toVector(stLast.pre[1].m_buffer) # <<>>
    /\ stLast.numChannels = 2
    /\ Len(stLast.buffer) = 2
    /\ Len(stage.m_filters) = 2
    /\ toVector(stage.m_filters[1].m_buffer) = <<stLast.buffer[1]>>
    /\ toVector(stage.m_filters[1].m_buffer) # toVector(stLast.pre[1].m_buffer)

-----------------------------------------------------------------------------
(* Claim about reset and clearState, checked under SpecProcess (reset of a *)
(* stage that has processed samples) and under SpecState (clearState of a  *)
(* pipeline whose stages hold loaded windows).                             *)

\* what a later call can observe of an engine
Observable(f) == [window |-> toVector(f.m_buffer), capacity |-> f.m_buffer.capacity,
                  aggregate |-> f.m_policy]

\* st, whose engines were pre before reset(), has as many engines as before,
\* each empty with a zero aggregate and its capacity, and answers every
\* next call as a newly built stage does, leaving engines that look the same
ResetLikeNew(st, pre) ==
    /\ Len(st.m_filters) = Len(pre)
    /\ \A c \in 1..Len(pre) :
          Observable(st.m_filters[c]) =
              [window |-> <<>>, capacity |-> pre[c].m_buffer.capacity, aggregate |-> PolicyNew]
    /\ \A numChannels \in 1..MaxPrCh, buffer \in SeqsUpTo(StSamples(st.type), MaxPrBuf) :
          LET mine == process(st, buffer, numChannels)
              new == process(StageNew(st.type, st.m_mode, st.m_window_size), buffer, numChannels)
          IN /\ mine.out = new.out
             /\ Len(mine.filters) = Len(new.filters)
             /\ \A c \in 1..Len(new.filters) :
                   Observable(mine.filters[c]) = Observable(new.filters[c])

\* C19: reset() on a stage empties every live engine's window and zeroes its
\* aggregate without changing the number of engines or the window size, and
\* the outputs after it are those of a newly built stage given the same input.
C19_ResetIsFresh ==
    stLast.op = "reset" => ResetLikeNew(stage, stLast.pre)

\* two engines with samples, the first with a full window, were reset
C19_Witness ==
    /\ stLast.op = "reset"
    /\ stage.m_mode = "Moving"
    /\ Len(stLast.pre) = 2
    /\ isFull(stLast.pre[1].m_buffer)
    /\ toVector(stLast.pre[2].m_buffer) # <<>>
    /\ stLast.pre[1].m_policy # PolicyNew
    /\ Len(stage.m_filters) = 2
    /\ toVector(stage.m_filters[1].m_buffer) = <<>>

\* C19, for a pipeline: clearState() does the same to every stage and keeps
\* the stage list.
C19_ClearStateResetsAll ==
    plLast.op = "clearState" =>
        /\ Len(pipeline) = Len(plLast.pre)
        /\ \A j \in 1..Len(pipeline) :
              /\ pipeline[j].type = plLast.pre[j].type
              /\ pipeline[j].m_mode = plLast.pre[j].m_mode
              /\ pipeline[j].m_window_size = plLast.pre[j].m_window_size
              /\ ResetLikeNew(pipeline[j], plLast.pre[j].m_filters)

\* both stages of a pipeline held a loaded window before clearState
C19_ClearStateWitness ==
    /\ plLast.op = "clearState"
    /\ Len(pipeline) = 2
    /\ \A j \in 1..2 :
          /\ Len(plLast.pre[j].m_filters) = 1
          /\ toVector(plLast.pre[j].m_filters[1].m_buffer) = <<2>>
          /\ Len(pipeline[j].m_filters) = 1

-----------------------------------------------------------------------------
(* Claims about stage configuration, checked under SpecConfig, and about   *)
(* the arguments of process, checked under SpecPipe                        *)

AddedStage == plLast.op = "addStage"

\* the windowed stage types whose classes are modelled
WindowedNames == {"movingAverage", "rms", "zScoreNormalize", "meanAbsoluteValue"}

DefinedModes(name) == IF name = "rectify" THEN {"full", "half"} ELSE {"moving", "batch"}

\* C22: addStage with a mode string that is not one of the stage's modes,
\* or for zScoreNormalize with an epsilon that is not positive, fails and
\* appends no stage.
C22_InvalidConfigRejected ==
    (AddedStage
        /\ \/ plLast.arg.params.mode \notin DefinedModes(plLast.arg.name)
           \/ /\ plLast.arg.name = "zScoreNormalize"
              /\ plLast.arg.params.hasEpsilon
              /\ plLast.arg.params.epsilon <= 0) =>
        /\ plLast.err # "ok"
        /\ pipeline = plLast.pre

\* C23: process with channels = 0 is rejected on the caller's context: no
\* worker is queued for it, so no call with 0 channels is ever queued,
\* running, done or settled.
C23_ZeroChannelsRejected ==
    \A c \in CallIds : calls[c].st # "idle" => calls[c].channels >= 1

\* the configuration of a stage
Config(st) == [m_mode |-> st.m_mode, m_window_size |-> st.m_window_size,
               m_epsilon |-> st.m_epsilon]

\* C24: process, reset, serializeState and deserializeState, returning or
\* throwing, leave the configuration of every stage (mode, window size,
\* epsilon) as constructed.
C24_ConfigImmutable ==
    plLast.op \in {"process", "reset", "serializeState", "deserializeState"} =>
        \A i \in 1..Len(pipeline) : Config(pipeline[i]) = Config(plLast.pre[i])

-----------------------------------------------------------------------------
(* Claims about the derived filters, checked under SpecDerived.  fltHist   *)
(* is x_1..x_k, the samples since construction or clear.                   *)

FedSample == fltLast.op = "addSample"

\* the indices of the last min(k, W) samples
LastIndices ==
    LET k == Len(fltHist)
        W == flt.m_filter.m_buffer.capacity
    IN (k - Min(k, W) + 1)..k

\* |x_j - x_{j-1}|, 0 for the first sample
AbsDiff(j) == IF j = 1 THEN 0 ELSE Abs(fltHist[j] - fltHist[j - 1])

SlopeChange(j) ==
    (fltHist[j - 1] - fltHist[j - 2]) * (fltHist[j - 1] - fltHist[j]) > flt.m_threshold

\* C26: the boolean an SSC filter feeds into its window for x_k is false
\* for k <= 2 and ((x_{k-1} - x_{k-2}) * (x_{k-1} - x_k) > t) for every
\* k >= 3, and the value returned is the number of true booleans among the
\* last W.
C26_SscFlags ==
    (FedSample /\ flt.kind = "Ssc") =>
        /\ fltLast.fed = (Len(fltHist) >= 3 /\ SlopeChange(Len(fltHist)))
        /\ fltOut = Lin(Cardinality({j \in LastIndices : j >= 3 /\ SlopeChange(j)}), 1)

\* C27: a waveform-length filter returns the sum of |x_j - x_{j-1}| over the
\* last min(k, W) samples, the term of the first sample being 0.
C27_WaveformLength ==
    (FedSample /\ flt.kind = "WaveformLength") =>
        fltOut = Lin(SeqSum([i \in 1..Cardinality(LastIndices) |->
                                AbsDiff(Len(fltHist) - Cardinality(LastIndices) + i)]), 1)

\* a window of two differences has evicted the difference of the second sample
C27_Witness ==
    /\ FedSample
    /\ flt.kind = "WaveformLength"
    /\ flt.m_filter.m_buffer.capacity = 2
    /\ fltHist = <<0, 5, 2, 0>>
    /\ fltOut = Lin(5, 1)

\* C28: setState(getState()) on a derived filter, in any reachable state,
\* leaves every later addSample result equal to that of the filter that
\* was not taken through it.
C28_RoundTripTransparent ==
    FedSample => fltRtOut = fltOut

-----------------------------------------------------------------------------
(* Claims about the ring window's shape and its rejected operations,       *)
(* checked under SpecRing.                                                 *)

\* C29: after any sequence of push, pop, pushOverwrite, clear and
\* fromVector the capacity is at least 1 and the one set at construction,
\* 0 <= count <= capacity, isFull iff count = capacity, isEmpty iff
\* count = 0, and head = (tail + count) mod capacity.
C29_RingShape ==
    /\ ring.capacity >= 1
    /\ ring.capacity = ringMade
    /\ 0 <= ring.count
    /\ ring.count <= ring.capacity
    /\ isFull(ring) <=> ring.count = ring.capacity
    /\ isEmpty(ring) <=> ring.count = 0
    /\ ring.head = (ring.tail + ring.count) % ring.capacity

\* a window of capacity 3 whose tail has wrapped past its head
C29_Witness ==
    /\ ringLast.op = "pop"
    /\ ringLast.ok
    /\ ring.capacity = 3
    /\ ring.tail = 2
    /\ ring.count = 2
    /\ ring.head = 1

\* the last call was one the window has to refuse
Rejected ==
    \/ ringLast.op = "push" /\ isFull(ringLast.pre)
    \/ ringLast.op \in {"pop", "peek"} /\ isEmpty(ringLast.pre)

\* C30: push on a full window and pop on an empty one return false, peek on
\* an empty window throws, and each leaves head, tail, count and toVector
\* as they were.
C30_RejectedNoMutation ==
    Rejected =>
        /\ ~ringLast.ok
        /\ ring.head = ringLast.pre.head
        /\ ring.tail = ringLast.pre.tail
        /\ ring.count = ringLast.pre.count
        /\ toVector(ring) = toVector(ringLast.pre)

\* a push refused by a full window of capacity 2 whose tail is not at 0
C30_Witness ==
    /\ ringLast.op = "push"
    /\ ~ringLast.ok
    /\ ring.capacity = 2
    /\ ring.count = 2
    /\ ring.tail = 1

-----------------------------------------------------------------------------
(* Claims about the ring window's snapshot and restore, checked under      *)
(* SpecRing.                                                               *)

\* the calls a caller can make on a ring window
RingCalls ==
    [op : {"push", "pushOverwrite"}, v : RingVals]
        \cup [op : {"pop", "peek", "clear"}, v : {0}]

\* the window after a call
RingAfter(r, c) ==
    CASE c.op = "push" -> push(r, c.v)
      [] c.op = "pushOverwrite" -> pushOverwrite(r, c.v)
      [] c.op = "pop" -> pop(r)
      [] c.op = "clear" -> clear(r)
      [] OTHER -> r

\* what a call hands back: push and pop their bool, pop and peek the item
RingReturned(r, c) ==
    CASE c.op = "push" -> <<pushOk(r)>>
      [] c.op \in {"pop", "peek"} -> IF isEmpty(r) THEN <<FALSE>> ELSE <<TRUE, peek(r)>>
      [] OTHER -> <<>>

\* what the getters of a ring window show
RingShown(r) ==
    [vec |-> toVector(r), count |-> r.count, capacity |-> r.capacity,
     full |-> isFull(r), empty |-> isEmpty(r)]

\* two windows show the same and answer every sequence of up to depth
\* calls alike
RECURSIVE SameBehaviour(_, _, _)
SameBehaviour(a, b, depth) ==
    /\ RingShown(a) = RingShown(b)
    /\ \/ depth = 0
       \/ \A c \in RingCalls :
             /\ RingReturned(a, c) = RingReturned(b, c)
             /\ SameBehaviour(RingAfter(a, c), RingAfter(b, c), depth - 1)

\* C31: after fromVector(s) on a window of capacity N in any prior state,
\* toVector is the last min(|s|, N) elements of s; fromVector(toVector())
\* leaves toVector, count, peek and the later behaviour unchanged.
C31_FromVectorKeepsTail ==
    /\ ringLast.op = "fromVector" =>
          toVector(ring) = LastN(ringHist, Min(Len(ringHist), ring.capacity))
    /\ SameBehaviour(fromVector(ring, toVector(ring)), ring, MaxLater)

\* a vector longer than the capacity restored over a window that held
\* other items at a wrapped tail
C31_Witness ==
    /\ ringLast.op = "fromVector"
    /\ ring.capacity = 2
    /\ Len(ringHist) = 3
    /\ ringHist[1] # ringHist[2]
    /\ ringLast.pre.count = 2
    /\ ringLast.pre.tail = 1
    /\ toVector(ringLast.pre) # toVector(ring)

-----------------------------------------------------------------------------
(* Claim about the z-score engine's degenerate window, checked under       *)
(* SpecEngine.  After an addSample the newest element of the window is the *)
(* value the call was given.                                               *)

PositiveEpsilons == {1, 1000}

AddedSample == engLast \in {"add", "evict"}

Newest(e) == toVector(e.m_buffer)[e.m_buffer.count]

ConstantWindow(e) ==
    \A i, j \in 1..e.m_buffer.count : toVector(e.m_buffer)[i] = toVector(e.m_buffer)[j]

-----------------------------------------------------------------------------
(* Claim about the order of the calls inside addSample, checked under      *)
(* SpecEngine.                                                             *)

\* where the last addSample called fn
CallsOf(fn) == {i \in 1..Len(engCalls.calls) : engCalls.calls[i].fn = fn}

\* fn was called once, with arg
CalledOnceWith(fn, arg) ==
    /\ Cardinality(CallsOf(fn)) = 1
    /\ \A i \in CallsOf(fn) : engCalls.calls[i].arg = arg

\* every call of first comes before every call of second
Before(first, second) == \A i \in CallsOf(first), j \in CallsOf(second) : i < j

\* C33: in every addSample on a windowed engine, onRemove is called iff the
\* window is full at entry, once, before the overwrite and with the value
\* pushOverwrite displaces (the oldest, as peek returns it); onAdd is then
\* called once with the new value, and the result is computed with the
\* count after insertion.
C33_CallOrder ==
    (engKind # "ZScore" /\ AddedSample) =>
        LET before == toVector(engCalls.pre.m_buffer)
            full == isFull(engCalls.pre.m_buffer)
        IN /\ (CallsOf("onRemove") # {}) <=> full
           /\ full => /\ CalledOnceWith("onRemove", before[1])
                      /\ before[1] = peek(engCalls.pre.m_buffer)
                      /\ toVector(eng.m_buffer) = Tail(before) \o <<Newest(eng)>>
           /\ ~full => toVector(eng.m_buffer) = before \o <<Newest(eng)>>
           /\ CalledOnceWith("pushOverwrite", Newest(eng))
           /\ CalledOnceWith("onAdd", Newest(eng))
           /\ CalledOnceWith("getResult", eng.m_buffer.count)
           /\ Before("onRemove", "pushOverwrite")
           /\ Before("pushOverwrite", "onAdd")
           /\ Before("onAdd", "getResult")
           /\ eng.m_policy =
                 onAdd(engKind,
                       IF full THEN onRemove(engKind, engCalls.pre.m_policy, before[1])
                       ELSE engCalls.pre.m_policy,
                       Newest(eng))

\* a full window of two different samples at a wrapped tail evicts its oldest
C33_Witness ==
    /\ engKind = "Variance"
    /\ engLast = "evict"
    /\ engCalls.pre.m_buffer.tail = 1
    /\ toVector(engCalls.pre.m_buffer) = <<2, 3>>
    /\ toVector(eng.m_buffer) = <<3, -1>>
    /\ Len(engCalls.calls) = 4

-----------------------------------------------------------------------------
(* Claim about stale storage, checked under SpecRing.  A cell holds a value *)
(* inserted since the last clear exactly when it was written since then.   *)

\* the storage cells toVector reads; peek and pop read the first of them
ReadCells(r) == {(r.tail + i) % r.capacity : i \in 0..(r.count - 1)}

\* C34: after clear() every value returned by peek, pop or toVector was
\* inserted by push, pushOverwrite or fromVector after the most recent
\* clear, whatever operations follow.
C34_NoStaleRead ==
    /\ ReadCells(ring) \subseteq ringWritten
    /\ (ringLast.op \in {"pop", "peek"} /\ ringLast.ok) =>
          ringLast.pre.tail \in ringWritten

\* a pop returned a value while a cell written before the last clear still
\* holds its old item
C34_Witness ==
    /\ ringLast.op = "pop"
    /\ ringLast.ok
    /\ ring.count >= 1
    /\ \E i \in 0..(ring.capacity - 1) : ring.buffer[i] # 0 /\ i \notin ringWritten

-----------------------------------------------------------------------------
(* Claim about streaming continuity, checked under SpecProcess.  The last  *)
(* call is taken as buffer A; every buffer B is tried as the next call.    *)

\* C35: for a Moving stage and a fixed channel count C, processing A (its
\* length a multiple of C) and then B in two calls gives the same outputs
\* and the same final stage state as processing A ++ B in one call.
C35_StreamingContinuity ==
    (/\ stLast.op = "process"
     /\ stage.m_mode = "Moving"
     /\ stLast.numChannels >= 1
     /\ Len(stLast.buffer) % stLast.numChannels = 0) =>
        \A B \in SeqsUpTo(StSamples(stage.type), MaxPrBuf) :
            LET before == [stage EXCEPT !.m_filters = stLast.pre]
                whole == process(before, stLast.buffer \o B, stLast.numChannels)
                second == process(stage, B, stLast.numChannels)
            IN /\ whole.out = stOut \o second.out
               /\ whole.filters = second.filters

\* two channels with a window of one sample each, already fed by an earlier
\* call, take one more frame as A
C35_Witness ==
    /\ stLast.op = "process"
    /\ stage.m_mode = "Moving"
    /\ stage.m_window_size = 1
    /\ stLast.numChannels = 2
    /\ Len(stLast.buffer) = 2
    /\ Len(stLast.pre) = 2
    /\ stLast.pre[1].m_buffer.count = 1
    /\ stLast.pre[2].m_buffer.count = 1
    /\ stLast.pre[1] # stage.m_filters[1]

-----------------------------------------------------------------------------
(* Claims about snapshots, checked under SpecState. *)

\* the stages whose entry in the loaded snapshot records another type
ForeignEntries ==
    {i \in 1..Len(plLast.pre) :
        /\ plLast.arg.hasStages
        /\ i <= Len(plLast.arg.stages)
        /\ plLast.arg.stages[i].type # plLast.pre[i].type}

\* C36: when the type recorded for index i of the snapshot differs from
\* the type of the pipeline's stage i, loadState fails and stage i is as it
\* was, even when the entry would pass stage i's own validation.
C36_ForeignSnapshotRejected ==
    plLast.op = "loadState" =>
        \A i \in ForeignEntries : plLast.err # "ok" /\ pipeline[i] = plLast.pre[i]

\* C37: saveState and listState leave the stage list and every stage's
\* configuration and engines as they were; saveState's stageCount is the
\* number of entries in stages, and entry i carries index i and the type of
\* stage i, in pipeline order.
C37_SaveAndListReadOnly ==
    /\ plLast.op \in {"saveState", "listState"} => pipeline = plLast.pre
    /\ plLast.op = "saveState" =>
          /\ snapshot.stageCount = Len(snapshot.stages)
          /\ Len(snapshot.stages) = Len(pipeline)
          /\ \A i \in 1..Len(pipeline) :
                /\ snapshot.stages[i].index = i - 1
                /\ snapshot.stages[i].type = pipeline[i].type

\* a pipeline of two stages of different types, one with a restored engine,
\* was saved
C37_Witness ==
    /\ plLast.op = "saveState"
    /\ Len(pipeline) = 2
    /\ pipeline[1].type # pipeline[2].type
    /\ \E i \in 1..2 : /\ Len(pipeline[i].m_filters) = 1
                       /\ pipeline[i].m_filters[1].m_buffer.count = 1
    /\ snapshot.stageCount = 2

-----------------------------------------------------------------------------
(* Claim about the moving FFT filter, checked under SpecFft. *)

\* C38: a MovingFftFilter in Moving mode with FFT size F, once at least F
\* samples were added since construction or reset, computes a spectrum on
\* every addSample (returns true), over exactly the F most recently added
\* samples, for any number of samples added.
C38_SpectrumOfLatest ==
    (/\ fftLast.op = "addSample"
     /\ fft.m_mode = "Moving"
     /\ Len(fftHist) >= fft.m_fftSize) =>
        /\ fftLast.computed
        /\ fftLast.frame = LastN(fftHist, fft.m_fftSize)

-----------------------------------------------------------------------------
(* Claim about the time series buffer, checked under SpecTimeSeries. *)

\* the timestamps pushed since construction or clear never decrease
NonDecreasing ==
    \A i \in 1..(Len(tsbHist) - 1) : tsbHist[i][1] <= tsbHist[i + 1][1]

\* the pushed samples no older than the window of the last push allows,
\* with t - D taken as 0 when t < D
InWindow ==
    LET cutoff == Max(0, tsbLast.timestamp - tsb.m_window_duration_ms)
        Kept(sample) == sample[1] >= cutoff
    IN SelectSeq(tsbHist, Kept)

\* C39: with window duration D > 0 and timestamps pushed in non-decreasing
\* order, after every push(t, v) the sample pushed is back(), the retained
\* samples are the pushed samples with timestamp >= t - D (0 when t < D),
\* and with max_samples M > 0 no more than the last M of them.
C39_WindowWithoutWrap ==
    (/\ tsbLast.op = "push"
     /\ tsb.m_window_duration_ms > 0
     /\ NonDecreasing) =>
        /\ tsb.m_samples # <<>>
        /\ tsb.m_samples[Len(tsb.m_samples)] = <<tsbLast.timestamp, tsbLast.value>>
        /\ tsb.m_samples = IF tsb.m_max_samples > 0 /\ Len(InWindow) > tsb.m_max_samples
                           THEN LastN(InWindow, tsb.m_max_samples)
                           ELSE InWindow
        /\ tsb.m_max_samples > 0 => Len(tsb.m_samples) <= tsb.m_max_samples

====
